---- MODULE Spec2Model ----
(***************************************************************************)
(* GapFinder: the page-aware paragraph merger and ranker of                *)
(* gap_analyzer.py (analyze_pages), fed by the page source of              *)
(* pdf_extractor.py, the LLM verifier / reporter of llm_analyzer.py        *)
(* (verify_gaps, generate_report), the RAG engine of rag_engine.py         *)
(* (GapFinderAI, _parse_retry_delay) and the identifier routes of app.py.  *)
(*                                                                         *)
(* A text is a sequence of one-character strings, so that trimming,        *)
(* splitting, joining and substring search are computed as Python          *)
(* computes them.  None is a value distinct from every text.               *)
(***************************************************************************)
EXTENDS Naturals, Integers, Sequences, FiniteSets, TLC

(***************************************************************************)
(* Bounds of the model.                                                    *)
(***************************************************************************)
\* pages of one document
MaxPages == 2
\* text blocks of one document, over all its pages
MaxBlocks == 3
\* similarity scores are 0..MaxScore (tenths stand for the float scores)
MaxScore == 1
\* top_k is drawn from 0..MaxTopK
MaxTopK == 2
\* candidates handed to verify_gaps
MaxGaps == 11
\* verdict entries in one LLM response
MaxVerdicts == 2

(***************************************************************************)
(* Python str primitives.                                                  *)
(***************************************************************************)
None == <<"None">>

Truthy(t) == t # None /\ t # <<>>

IsSpace(c) == c \in {" ", "\n"}

IsAlpha(c) == c \in {"a", "b"}

RECURSIVE RStripLen(_, _)
RStripLen(s, n) == IF n > 0 /\ IsSpace(s[n]) THEN RStripLen(s, n - 1) ELSE n

RECURSIVE LStripPos(_, _)
LStripPos(s, i) == IF i <= Len(s) /\ IsSpace(s[i]) THEN LStripPos(s, i + 1) ELSE i

rstrip(s) == SubSeq(s, 1, RStripLen(s, Len(s)))

lstrip(s) == SubSeq(s, LStripPos(s, 1), Len(s))

strip(s) == lstrip(rstrip(s))

\* sub occurs in s at position i
OccursAt(s, sub, i) ==
    /\ i + Len(sub) - 1 <= Len(s)
    /\ \A k \in 1..Len(sub) : s[i + k - 1] = sub[k]

\* Python's `sub in s`
Contains(s, sub) == \E i \in 1..(Len(s) + 1) : OccursAt(s, sub, i)

startswith(s, prefix) == OccursAt(s, prefix, 1)

\* s[:n]
Prefix(s, n) == SubSeq(s, 1, IF Len(s) < n THEN Len(s) ELSE n)

\* the first position at or after i where sep occurs in s, 0 if there is none
NextSep(s, sep, i) ==
    IF \E j \in i..Len(s) : OccursAt(s, sep, j)
    THEN CHOOSE j \in i..Len(s) :
             OccursAt(s, sep, j) /\ \A k \in i..(j - 1) : ~OccursAt(s, sep, k)
    ELSE 0

\* str.split(sep): left to right, occurrences do not overlap
RECURSIVE SplitFrom(_, _, _)
SplitFrom(s, sep, start) ==
    LET j == NextSep(s, sep, start)
    IN IF j = 0
       THEN <<SubSeq(s, start, Len(s))>>
       ELSE <<SubSeq(s, start, j - 1)>> \o SplitFrom(s, sep, j + Len(sep))

split(s, sep) == SplitFrom(s, sep, 1)

\* sep.join(parts)
RECURSIVE join(_, _)
join(sep, parts) ==
    IF parts = <<>> THEN <<>>
    ELSE IF Len(parts) = 1 THEN parts[1]
    ELSE parts[1] \o sep \o join(sep, Tail(parts))

\* str.split() without argument: the maximal runs of non-whitespace
RECURSIVE Words(_, _)
Words(s, i) ==
    LET b == LStripPos(s, i)
        e == CHOOSE j \in b..(Len(s) + 1) :
                 /\ j = Len(s) + 1 \/ IsSpace(s[j])
                 /\ \A k \in b..(j - 1) : ~IsSpace(s[k])
    IN IF b > Len(s) THEN <<>>
       ELSE <<SubSeq(s, b, e - 1)>> \o Words(s, e)

(***************************************************************************)
(* gap_analyzer.py: constants and helpers.                                 *)
(***************************************************************************)
SENTENCE_ENDINGS == {".", "!", "?", "\"", ")", "]"}

MIN_PARAGRAPH_LENGTH == 80

\* _join_paragraphs that keeps the hyphen
_join_paragraphs_keeps_hyphen(previous, current) ==
    LET p == rstrip(previous)
        c == lstrip(current)
    IN IF p # <<>> /\ p[Len(p)] = "-"
       THEN p \o c
       ELSE p \o <<" ">> \o c

_join_paragraphs(previous, current) ==
    LET p == rstrip(previous)
        c == lstrip(current)
    IN IF p # <<>> /\ p[Len(p)] = "-"
       THEN SubSeq(p, 1, Len(p) - 1) \o c
       ELSE p \o <<" ">> \o c

\* _is_incomplete that tests the text before trimming it
_is_incomplete_untrimmed(text) ==
    IF rstrip(text) = <<>> THEN FALSE
    ELSE text[Len(text)] \notin SENTENCE_ENDINGS

_is_incomplete(text) ==
    LET stripped == rstrip(text)
    IN IF stripped = <<>> THEN FALSE
       ELSE stripped[Len(stripped)] \notin SENTENCE_ENDINGS

\* the two literals of the leader-dot test, as they stand in the source file
LEADER_DOTS == <<".", " ", ".", " ", ".">>

ELLIPSIS_LITERAL == <<"a-circumflex", "euro", "broken-bar">>

_is_scorable_paragraph(text) ==
    LET non_space == SelectSeq(text, LAMBDA c : c # " ")
        alpha_count == Len(SelectSeq(non_space, IsAlpha))
    IN IF Len(text) < MIN_PARAGRAPH_LENGTH THEN FALSE
       ELSE IF Contains(text, LEADER_DOTS) \/ Contains(text, ELLIPSIS_LITERAL) THEN FALSE
       ELSE IF non_space = <<>> THEN FALSE
       \* alpha_count / len(non_space) < 0.6, in integers
       ELSE IF alpha_count * 10 < 6 * Len(non_space) THEN FALSE
       ELSE TRUE

_normalize_for_comparison(text) == join(<<" ">>, Words(text, 1))

(***************************************************************************)
(* pdf_extractor.py: the page source.  A block is a text block of the page *)
(* that lies outside the header and footer bands: left tells whether its   *)
(* centre is left of the page midpoint, y0 is its top coordinate.          *)
(***************************************************************************)
Rep(c, n) == [i \in 1..n |-> c]

\* an unfinished sentence, long enough to be scored on its own
TInc == Rep("a", 80)

\* a finished sentence that begins like TInc
TComp == Rep("a", 80) \o <<".">>

\* a short line that breaks a word with a hyphen, as extracted (with its newline)
THyp == <<"b", "-", "\n">>

BlockTexts == {TInc, TComp, THyp}

YCoords == {1, 2}

Blocks == [left : BOOLEAN, y0 : YCoords, text : BlockTexts]

\* list.sort(key=lambda b: b[0]): stable, ascending y0
RECURSIVE InsertByY(_, _)
InsertByY(sorted, b) ==
    IF sorted = <<>> THEN <<b>>
    ELSE IF sorted[Len(sorted)].y0 <= b.y0 THEN Append(sorted, b)
    ELSE Append(InsertByY(SubSeq(sorted, 1, Len(sorted) - 1), b), sorted[Len(sorted)])

RECURSIVE SortByY(_)
SortByY(bs) ==
    IF bs = <<>> THEN <<>>
    ELSE InsertByY(SortByY(SubSeq(bs, 1, Len(bs) - 1)), bs[Len(bs)])

TextsOf(bs) == [i \in 1..Len(bs) |-> bs[i].text]

\* an extraction that takes the first and last block of the reading order
_extract_blocks_reading_order(text_blocks) ==
    LET left_blocks == SortByY(SelectSeq(text_blocks, LAMBDA b : b.left))
        right_blocks == SortByY(SelectSeq(text_blocks, LAMBDA b : ~b.left))
        ordered_texts == TextsOf(left_blocks) \o TextsOf(right_blocks)
    IN IF text_blocks = <<>>
       THEN [page_text |-> <<>>, trailing_text |-> None, leading_text |-> None]
       ELSE [page_text |-> join(<<"\n", "\n">>, ordered_texts),
             trailing_text |-> ordered_texts[Len(ordered_texts)],
             leading_text |-> ordered_texts[1]]

_extract_blocks_column_aware(text_blocks) ==
    LET left_blocks == SortByY(SelectSeq(text_blocks, LAMBDA b : b.left))
        right_blocks == SortByY(SelectSeq(text_blocks, LAMBDA b : ~b.left))
        all_blocks_with_y == SortByY(text_blocks)
        ordered_texts == TextsOf(left_blocks) \o TextsOf(right_blocks)
    IN IF text_blocks = <<>>
       THEN [page_text |-> <<>>, trailing_text |-> None, leading_text |-> None]
       ELSE [page_text |-> join(<<"\n", "\n">>, ordered_texts),
             trailing_text |-> all_blocks_with_y[Len(all_blocks_with_y)].text,
             leading_text |-> all_blocks_with_y[1].text]

\* the layouts of one page with n blocks; the blocks of a page differ in text
LayoutsOf(n) ==
    {bs \in [1..n -> Blocks] : \A i, j \in 1..n : i # j => bs[i].text # bs[j].text}

\* the records the page source can hand over for a page of n blocks
PageRecords == [n \in 0..MaxBlocks |-> {_extract_blocks_column_aware(bs) : bs \in LayoutsOf(n)}]

(***************************************************************************)
(* gap_analyzer.py: analyze_pages.                                         *)
(***************************************************************************)
VARIABLES
    pc,              \* "pages": in the loop over the page stream; "done": returned;
                     \* "type_error": the call raised TypeError
    progress_callback, \* whether the caller passes the keyword progress_callback
    messages,        \* the messages the caller's callback has received
    page_num,        \* pages consumed so far (extract_text_by_page numbers them 1, 2, ...)
    blocks_used,     \* blocks of the pages consumed so far
    stream,          \* the page records consumed so far, in order
    candidates,      \* list of (page, text)
    pending_visual,
    pending_page,
    evals,           \* the calls of _is_scorable_paragraph made so far, in order
    scores,          \* the score the embedding model gave each candidate
    threshold,
    top_k,
    results,         \* the returned list
    _anchor_embeddings, \* the module's cache of the anchor embeddings, None until computed
    encode_calls     \* the calls of model.encode made so far, in order

pvars == <<pc, progress_callback, messages, page_num, blocks_used, stream, candidates, pending_visual, pending_page,
           evals, scores, threshold, top_k, results, _anchor_embeddings, encode_calls>>

\* one call of _is_scorable_paragraph(text) followed by the conditional append
Evaluate(acc, kind, page, at, text) ==
    [cands |-> IF _is_scorable_paragraph(text)
               THEN Append(acc.cands, [page |-> page, text |-> text])
               ELSE acc.cands,
     evals |-> Append(acc.evals, [kind |-> kind, page |-> page, at |-> at, text |-> text])]

\* the loop over the paragraphs of one page (lines 156-170), from paragraph k on
RECURSIVE ParagraphLoop(_, _, _, _, _, _)
ParagraphLoop(acc, paragraphs, k, skip_leading, rec, num) ==
    LET leading_normalized == IF Truthy(rec.leading_text)
                              THEN _normalize_for_comparison(rec.leading_text) ELSE <<>>
        trailing_normalized == IF Truthy(rec.trailing_text)
                               THEN _normalize_for_comparison(rec.trailing_text) ELSE <<>>
        paragraph == paragraphs[k]
        para_normalized == _normalize_for_comparison(paragraph)
    IN IF k > Len(paragraphs) THEN acc
       ELSE IF /\ skip_leading
               /\ leading_normalized # <<>>
               /\ startswith(para_normalized, Prefix(leading_normalized, 100))
            THEN ParagraphLoop(acc, paragraphs, k + 1, FALSE, rec, num)
       ELSE IF /\ Truthy(rec.trailing_text)
               /\ _is_incomplete(rec.trailing_text)
               /\ \/ para_normalized = trailing_normalized
                  \/ strip(paragraph) = strip(rec.trailing_text)
            THEN ParagraphLoop(acc, paragraphs, k + 1, skip_leading, rec, num)
       ELSE ParagraphLoop(Evaluate(acc, "single", num, num, paragraph),
                          paragraphs, k + 1, skip_leading, rec, num)

\* [p.strip() for p in page_text.split('\n\n') if p.strip()]
ParagraphsOf(page_text) ==
    LET parts == split(page_text, <<"\n", "\n">>)
        stripped == [i \in 1..Len(parts) |-> strip(parts[i])]
    IN SelectSeq(stripped, LAMBDA p : p # <<>>)

\* an iteration that gives the join the number of the current page when the
\* pending fragment alone is not scorable
PageBodyAttributesByFragment(st, rec, num) ==
    LET paragraphs == ParagraphsOf(rec.page_text)
        acc0 == [cands |-> st.candidates, evals |-> st.evals]
        page == IF _is_scorable_paragraph(st.pending_visual) THEN st.pending_page ELSE num
    IN IF paragraphs = <<>>
       THEN LET acc == IF Truthy(st.pending_visual) /\ Truthy(rec.trailing_text)
                       THEN Evaluate(acc0, "joined", page, num,
                                     _join_paragraphs(st.pending_visual, rec.trailing_text))
                       ELSE acc0
            IN [candidates |-> acc.cands, evals |-> acc.evals,
                pending_visual |-> <<>>, pending_page |-> 0]
       ELSE LET cont == Truthy(st.pending_visual) /\ Truthy(rec.leading_text)
                acc1 == IF cont
                        THEN Evaluate(acc0, "joined", page, num,
                                      _join_paragraphs(st.pending_visual, rec.leading_text))
                        ELSE acc0
                acc2 == ParagraphLoop(acc1, paragraphs, 1, cont, rec, num)
                defer == Truthy(rec.trailing_text) /\ _is_incomplete(rec.trailing_text)
            IN [candidates |-> acc2.cands, evals |-> acc2.evals,
                pending_visual |-> IF defer THEN rec.trailing_text ELSE <<>>,
                pending_page |-> IF defer THEN num ELSE 0]

\* one iteration of the loop over the pages (lines 127-175)
PageBody(st, rec, num) ==
    LET paragraphs == ParagraphsOf(rec.page_text)
        acc0 == [cands |-> st.candidates, evals |-> st.evals]
    IN IF paragraphs = <<>>
       THEN LET acc == IF Truthy(st.pending_visual) /\ Truthy(rec.trailing_text)
                       THEN Evaluate(acc0, "joined", st.pending_page, num,
                                     _join_paragraphs(st.pending_visual, rec.trailing_text))
                       ELSE acc0
            IN [candidates |-> acc.cands, evals |-> acc.evals,
                pending_visual |-> <<>>, pending_page |-> 0]
       ELSE LET cont == Truthy(st.pending_visual) /\ Truthy(rec.leading_text)
                acc1 == IF cont
                        THEN Evaluate(acc0, "joined", st.pending_page, num,
                                      _join_paragraphs(st.pending_visual, rec.leading_text))
                        ELSE acc0
                acc2 == ParagraphLoop(acc1, paragraphs, 1, cont, rec, num)
                defer == Truthy(rec.trailing_text) /\ _is_incomplete(rec.trailing_text)
            IN [candidates |-> acc2.cands, evals |-> acc2.evals,
                pending_visual |-> IF defer THEN rec.trailing_text ELSE <<>>,
                pending_page |-> IF defer THEN num ELSE 0]

\* a descending sort that puts a result before the earlier results of equal score
RECURSIVE InsertByScoreTiesFirst(_, _)
InsertByScoreTiesFirst(sorted, r) ==
    IF sorted = <<>> THEN <<r>>
    ELSE IF sorted[Len(sorted)].score > r.score THEN Append(sorted, r)
    ELSE Append(InsertByScoreTiesFirst(SubSeq(sorted, 1, Len(sorted) - 1), r),
                sorted[Len(sorted)])

\* results.sort(key=lambda x: x[2], reverse=True): stable, descending score
RECURSIVE InsertByScore(_, _)
InsertByScore(sorted, r) ==
    IF sorted = <<>> THEN <<r>>
    ELSE IF sorted[Len(sorted)].score >= r.score THEN Append(sorted, r)
    ELSE Append(InsertByScore(SubSeq(sorted, 1, Len(sorted) - 1), r), sorted[Len(sorted)])

RECURSIVE SortByScore(_)
SortByScore(rs) ==
    IF rs = <<>> THEN <<>>
    ELSE InsertByScore(SortByScore(SubSeq(rs, 1, Len(rs) - 1)), rs[Len(rs)])

\* Select without the sort of line 199
SelectUnsorted(cands, sc, th, k) ==
    LET scored == [i \in 1..Len(cands) |->
                      [page |-> cands[i].page, text |-> cands[i].text, score |-> sc[i]]]
        kept == SelectSeq(scored, LAMBDA r : r.score >= th)
    IN SubSeq(kept, 1, IF Len(kept) < k THEN Len(kept) ELSE k)

\* lines 193-200: keep the scores at or above the threshold, sort, cut to top_k
Select(cands, sc, th, k) ==
    LET scored == [i \in 1..Len(cands) |->
                      [page |-> cands[i].page, text |-> cands[i].text, score |-> sc[i]]]
        kept == SelectSeq(scored, LAMBDA r : r.score >= th)
        sorted == SortByScore(kept)
    IN SubSeq(sorted, 1, IF Len(sorted) < k THEN Len(sorted) ELSE k)

\* the scores the embedding model can give a candidate list: one score per text
ScoreVectors(cands) ==
    {sc \in [1..Len(cands) -> 0..MaxScore] :
        \A i, j \in 1..Len(cands) : cands[i].text = cands[j].text => sc[i] = sc[j]}

\* an encoding that embeds the candidates one call at a time
ScoringCallsPerParagraph(cands, anchor_embeddings) ==
    (IF cands # <<>> /\ anchor_embeddings = None
     THEN <<[arg |-> "ANCHOR_PHRASES", from |-> 1, to |-> 10]>> ELSE <<>>)
    \o [i \in 1..Len(cands) |-> [arg |-> "texts", from |-> i, to |-> i]]

\* the calls of model.encode of lines 180-187: none for an empty candidate
\* list; else the anchor phrases if not cached yet (line 42), then the texts
\* of candidates[from..to] in one call
ScoringCalls(cands, anchor_embeddings) ==
    IF cands = <<>> THEN <<>>
    ELSE (IF anchor_embeddings = None
          THEN <<[arg |-> "ANCHOR_PHRASES", from |-> 1, to |-> 10]>> ELSE <<>>)
         \o <<[arg |-> "texts", from |-> 1, to |-> Len(cands)]>>

(***************************************************************************)
(* llm_analyzer.py: verify_gaps and generate_report.                       *)
(***************************************************************************)
VERIFY_BATCH_SIZE == 10

\* candidate paragraphs, and the evidence quote the LLM copies
ParaBC == <<"a", "b", "c">>

ParaBD == <<"a", "b", "d">>

QuoteBC == <<"b", "c">>

\* the n candidates handed to verify_gaps (position i holds Python index i - 1)
GapsOf(n) ==
    [i \in 1..n |-> [page |-> i, paragraph |-> IF i % 2 = 1 THEN ParaBC ELSE ParaBD]]

UNCERTAIN_REASON == "Evidence quote not found in source text"

\* GapVerdict: verdict is any string, index any integer
GapVerdicts ==
    [index : {0, 1},
     verdict : {"confirmed_gap", "false_positive", "maybe"},
     reason : {"llm reason"},
     evidence_quote : {<<>>, QuoteBC}]

\* response.parsed when it is a list
ParsedLists == UNION {[1..k -> GapVerdicts] : k \in 0..MaxVerdicts}

NoVerdict == [index |-> -1]

\* _validate_evidence without the substring test
_validate_evidence_nonempty_only(verdict, source_paragraph) ==
    IF verdict.evidence_quote = <<>>
    THEN [verdict |-> "uncertain", reason |-> UNCERTAIN_REASON,
          evidence_quote |-> verdict.evidence_quote]
    ELSE [verdict |-> verdict.verdict, reason |-> verdict.reason,
          evidence_quote |-> verdict.evidence_quote]

_validate_evidence(verdict, source_paragraph) ==
    IF verdict.evidence_quote = <<>> \/ ~Contains(source_paragraph, verdict.evidence_quote)
    THEN [verdict |-> "uncertain", reason |-> UNCERTAIN_REASON,
          evidence_quote |-> verdict.evidence_quote]
    ELSE [verdict |-> verdict.verdict, reason |-> verdict.reason,
          evidence_quote |-> verdict.evidence_quote]

\* verdict_map.get(i) that answers a missing index with the first entry of the response
verdict_map_get_first(verdicts, i) ==
    LET at == {k \in 1..Len(verdicts) : verdicts[k].index = i}
    IN IF at = {} THEN (IF verdicts = <<>> THEN NoVerdict ELSE verdicts[1])
       ELSE verdicts[CHOOSE k \in at : \A m \in at : m <= k]

\* verdict_map.get(i) for verdict_map = {v.index: v for v in verdicts}: the last entry wins
verdict_map_get(verdicts, i) ==
    LET at == {k \in 1..Len(verdicts) : verdicts[k].index = i}
    IN IF at = {} THEN NoVerdict
       ELSE verdicts[CHOOSE k \in at : \A m \in at : m <= k]

\* line 125
DefaultVerdict == [verdict |-> "uncertain", reason |-> "", evidence_quote |-> <<>>]

\* a dict display that holds the added keys only
dict_display_without_unpacking(g, added) == added

\* the dict display {**g, key: value, ...} of line 125: a new dict with the
\* entries of g, then the added keys, a later key replacing an earlier one
dict_display(g, added) ==
    [key \in DOMAIN g \cup DOMAIN added |-> IF key \in DOMAIN added THEN added[key] ELSE g[key]]

\* ReportPlan that filters on `verdict != "uncertain"`
ReportPlanKeepsClassified(verified_gaps) ==
    LET confirmed == SelectSeq(verified_gaps, LAMBDA g : g.verdict # "uncertain")
    IN [call |-> confirmed # <<>>, confirmed |-> confirmed]

\* the confirmed candidates never reach the prompt: every report asks the LLM
ReportPlanAlwaysCalls(verified_gaps) ==
    [call |-> TRUE,
     confirmed |-> SelectSeq(verified_gaps, LAMBDA g : g.verdict = "confirmed_gap")]

\* generate_report, lines 158-166: the confirmed candidates, and whether the LLM is called
ReportPlan(verified_gaps) ==
    LET confirmed == SelectSeq(verified_gaps, LAMBDA g : g.verdict = "confirmed_gap")
    IN [call |-> confirmed # <<>>, confirmed |-> confirmed]

NO_CONFIRMED_REPORT == "No confirmed research gaps were found after AI verification."

\* lines 179-186: the "Gap i" entries of the prompt, numbered from 1, each with
\* the first 500 characters of the paragraph and the evidence quote
gaps_section(confirmed) ==
    [i \in 1..Len(confirmed) |->
        [number |-> i,
         page |-> confirmed[i].page,
         paragraph |-> Prefix(confirmed[i].paragraph, 500),
         evidence_quote |-> confirmed[i].evidence_quote]]

VARIABLES
    vpc,           \* "start", "loop", "returned", "raised", "reported", "report_raised"
    gaps,          \* the argument of verify_gaps
    enriched,
    batch_start,
    calls,         \* the LLM calls of verify_gaps so far: first index, size and outcome
    llm_last,      \* per candidate, the entry verdict_map held for it, NoVerdict if none
    llm_ungrounded, \* the candidates for which some returned entry had no grounded quote
    report_prompt, \* the gap entries in the prompt of each LLM call of generate_report
    report         \* what generate_report returned

vvars == <<vpc, gaps, enriched, batch_start, calls, llm_last, llm_ungrounded,
           report_prompt, report>>

(***************************************************************************)
(* rag_engine.py: GapFinderAI (ingest_pdf, analyze_gaps, _call_gemini,     *)
(* cleanup) and _parse_retry_delay.                                        *)
(***************************************************************************)
\* operations on one engine
MaxOps == 3
\* digits after "retry in " in an error detail
MaxDigits == 2

DIGITS == <<"0", "1", "2", "3", "4", "5", "6", "7", "8", "9">>

IsDigit(c) == \E k \in 1..10 : DIGITS[k] = c

DigitValue(c) == (CHOOSE k \in 1..10 : DIGITS[k] = c) - 1

\* int() of a run of digits
RECURSIVE IntOf(_)
IntOf(ds) ==
    IF ds = <<>> THEN 0
    ELSE IntOf(SubSeq(ds, 1, Len(ds) - 1)) * 10 + DigitValue(ds[Len(ds)])

\* re.IGNORECASE on the letters of the pattern
Lower(c) ==
    CASE c = "R" -> "r" [] c = "E" -> "e" [] c = "T" -> "t"
      [] c = "Y" -> "y" [] c = "I" -> "i" [] c = "N" -> "n"
      [] OTHER -> c

RETRY_IN == <<"r", "e", "t", "r", "y", " ", "i", "n", " ">>

\* r"retry in (\d+)" matches at position i
RetryMatchAt(s, i) ==
    /\ i + Len(RETRY_IN) <= Len(s)
    /\ \A k \in 1..Len(RETRY_IN) : Lower(s[i + k - 1]) = RETRY_IN[k]
    /\ IsDigit(s[i + Len(RETRY_IN)])

\* the end of the run of digits that starts at position j: \d+ is greedy
DigitRunEnd(s, j) ==
    CHOOSE e \in j..Len(s) :
        /\ \A k \in j..e : IsDigit(s[k])
        /\ e = Len(s) \/ ~IsDigit(s[e + 1])

\* _parse_retry_delay that ignores the error detail
_parse_retry_delay_default_only(error_msg, default) == default

\* re.search finds the leftmost match; int(match.group(1)) if match else default
_parse_retry_delay(error_msg, default) ==
    IF \E i \in 1..Len(error_msg) : RetryMatchAt(error_msg, i)
    THEN LET i == CHOOSE i \in 1..Len(error_msg) :
                      /\ RetryMatchAt(error_msg, i)
                      /\ \A k \in 1..(i - 1) : ~RetryMatchAt(error_msg, k)
             j == i + Len(RETRY_IN)
         IN IntOf(SubSeq(error_msg, j, DigitRunEnd(error_msg, j)))
    ELSE default

DEFAULT_RETRY_DELAY == 40

\* str(e) of the errors the provider raises: status line, then the detail
ErrorHeads == {<<"4", "2", "9", " ">>,
               <<"4", "2", "9", " ">> \o RETRY_IN \o <<"x", " ">>}

ErrorPhrases == {RETRY_IN,
                 <<"R", "e", "t", "r", "y", " ", "I", "N", " ">>,
                 <<"r", "e", "t", "r", "y", " ", "i", "n">>,
                 <<"r", "e", "t", "r", "y", " ", " ", "i", "n", " ">>}

DelayDigits == UNION {[1..k -> {"0", "7"}] : k \in 0..MaxDigits}

ErrorTails == {<<>>, <<"s">>, <<".", "5", "s">>}

ErrorMessages ==
    {h \o ph \o d \o t : h \in ErrorHeads, ph \in ErrorPhrases, d \in DelayDigits, t \in ErrorTails}

\* what one generate_content call can do: return, or raise an exception of a
\* class, which for the API errors carries an HTTP code
CallOutcomes ==
    {[kind |-> "ok", class |-> "", code |-> 0]}
    \cup [kind : {"error"}, class : {"ClientError"}, code : {400, 429}]
    \cup [kind : {"error"}, class : {"ServerError"}, code : {503}]
    \cup [kind : {"error"}, class : {"ConnectionError"}, code : {0}]

\* the except clause of line 165 with the test of line 166 turned into `e.code < 429`
RetriesAnyClientError(outcome) ==
    outcome.kind = "error" /\ outcome.class = "ClientError"

\* lines 165-167: the except clause takes ClientError only, and re-raises unless 429
Retries(outcome) ==
    outcome.kind = "error" /\ outcome.class = "ClientError" /\ outcome.code = 429

\* cleanup that deletes the collection and keeps the reference
cleanup_keeps_reference(vectorstore) ==
    [vectorstore |-> vectorstore, deleted |-> vectorstore # 0]

\* lines 185-190: the store after cleanup (0 stands for None), and whether
\* delete_collection was called
cleanup(vectorstore) ==
    [vectorstore |-> 0, deleted |-> vectorstore # 0]

VARIABLES
    epc,            \* "idle"; "first": in _call_gemini before the first call; "second": after the sleep
    mode,           \* "local" or "cloud"
    _vectorstore,   \* 0 for None, else the number of the ingest that built the store
    ingests,        \* calls of ingest_pdf so far
    ops,            \* operations started so far
    callback,       \* whether the running analyze_gaps was given a progress_callback
    etrace,         \* what the last operation did, in order
    first_error,    \* str(e) of the 429 of the last operation, empty if there was none
    elast,          \* the last operation: name, store when it started, outcome
    ehist           \* the operations started so far: name, whether it built a store,
                    \* and for ingest_pdf "raise", "empty" (0 returned) or "chunks"

evars == <<epc, mode, _vectorstore, ingests, ops, callback, etrace, first_error, elast, ehist>>

\* the state of the engine while another part of the program runs
EngineIdle ==
    /\ epc = "off"
    /\ mode = "cloud"
    /\ _vectorstore = 0
    /\ ingests = 0
    /\ ops = 0
    /\ callback = FALSE
    /\ etrace = <<>>
    /\ first_error = <<>>
    /\ elast = [op |-> "", store |-> 0, outcome |-> ""]
    /\ ehist = <<>>

(***************************************************************************)
(* gap_analyzer.py: the text helpers called on their own.                  *)
(***************************************************************************)
\* length of the fragments handed to _join_paragraphs and _is_incomplete
MaxFragment == 3

LIMITA == <<"l", "i", "m", "i", "t", "a", "-">>

TION == <<"t", "i", "o", "n">>

\* fragments with letters, hyphens and whitespace at every position
Fragments ==
    UNION {[1..k -> {"a", "-", " "}] : k \in 0..MaxFragment} \cup {LIMITA, TION, <<"\n">>}

\* fragments that end in each closing character, or in another one, then whitespace
EndingTexts ==
    {body \o <<c>> \o w : body \in {<<>>, <<"a">>, <<".", " ">>},
                          c \in SENTENCE_ENDINGS \cup {"a", ",", ":", "-"},
                          w \in {<<>>, <<" ">>, <<"\n", " ">>}}

\* the horizontal ellipsis character U+2026
ELLIPSIS_GLYPH == "ellipsis"

\* what a paragraph can hold between its letters and its digits
DotPatterns ==
    {<<>>, <<".", ".">>, <<".", ".", ".">>, <<".", ".", ".", ".">>, LEADER_DOTS,
     <<ELLIPSIS_GLYPH>>, ELLIPSIS_LITERAL}

\* paragraphs around the length floor and the alphabetic ratio of 0.6
ParagraphTexts ==
    {Rep("a", na) \o dots \o Rep("1", nd) \o Rep(" ", ns) :
        na \in {0, 30, 47, 48, 49, 60, 79, 80}, dots \in DotPatterns,
        nd \in {0, 19, 20, 31, 32, 33}, ns \in {0, 1, 80}}

(***************************************************************************)
(* rag_engine.py: _parse_gaps_json.  A raw output is a sequence of tokens:  *)
(* a code fence, an opening or closing bracket, a word of prose, or a JSON  *)
(* value (a string, or an object with its keys and the value of "type").    *)
(* The commas between the values of an array are taken as written.          *)
(***************************************************************************)
MaxTokens == 4

GAP_FIELDS == {"type", "description", "evidence", "suggestion"}

valid_types == {"Methodological", "Theoretical", "Contextual", "Empirical"}

\* a "type" whose value is itself a JSON array, e.g. ["Empirical"]
LIST_VALUED == "list-valued"

Tok(kind) == [kind |-> kind, keys |-> {}, type |-> ""]

Obj(keys, type) == [kind |-> "object", keys |-> keys, type |-> type]

JsonValues ==
    {Tok("string"),
     Obj(GAP_FIELDS, "Theoretical"),
     Obj(GAP_FIELDS, "Unknown"),
     Obj(GAP_FIELDS, LIST_VALUED),
     Obj({"type", "description"}, "Empirical"),
     Obj(GAP_FIELDS \ {"type"}, "")}

RawTokens == JsonValues \cup {Tok("fence"), Tok("open"), Tok("close"), Tok("word")}

RawOutputs == UNION {[1..n -> RawTokens] : n \in 0..MaxTokens}

\* the token is an object whose text holds the brackets of a list-valued "type"
HoldsBrackets(t) == t.kind = "object" /\ "type" \in t.keys /\ t.type = LIST_VALUED

\* json.loads of tokens i.. of a slice that begins with an opening bracket:
\* depth counts the open arrays, elems are the values of the outermost array
RECURSIVE ScanArray(_, _, _, _)
ScanArray(slice, i, depth, elems) ==
    IF i > Len(slice) THEN [ok |-> depth = 0, gaps |-> elems]
    ELSE LET t == slice[i]
         IN IF depth = 0 /\ i > 1 THEN [ok |-> FALSE, gaps |-> <<>>]
            ELSE IF t.kind = "open"
                 THEN ScanArray(slice, i + 1, depth + 1,
                                IF depth = 1 THEN Append(elems, Tok("array")) ELSE elems)
            ELSE IF t.kind = "close" THEN ScanArray(slice, i + 1, depth - 1, elems)
            ELSE IF t.kind \in {"word", "fence"} THEN [ok |-> FALSE, gaps |-> <<>>]
            ELSE ScanArray(slice, i + 1, depth,
                           IF depth = 1 THEN Append(elems, t) ELSE elems)

\* json.loads(cleaned[start:end + 1]), ok = FALSE for JSONDecodeError
json_loads(cleaned, start, end) ==
    IF end < start THEN [ok |-> FALSE, gaps |-> <<>>]
    ELSE IF HoldsBrackets(cleaned[start])
         THEN \* the slice begins inside the object: its list of strings, or extra data
              IF start = end THEN [ok |-> TRUE, gaps |-> <<Tok("string")>>]
              ELSE [ok |-> FALSE, gaps |-> <<>>]
    ELSE IF HoldsBrackets(cleaned[end]) THEN [ok |-> FALSE, gaps |-> <<>>]
    ELSE ScanArray(SubSeq(cleaned, start, end), 1, 0, <<>>)

\* the loop of lines 219-227 from element k on; raised = TRUE for the
\* TypeError of `gap["type"] not in valid_types` on an unhashable value
RECURSIVE ValidateFrom(_, _, _)
ValidateFrom(parsed, k, validated) ==
    IF k > Len(parsed) THEN [raised |-> FALSE, value |-> validated]
    ELSE LET gap == parsed[k]
         IN IF gap.kind # "object" THEN ValidateFrom(parsed, k + 1, validated)
            ELSE IF ~(GAP_FIELDS \subseteq gap.keys) THEN ValidateFrom(parsed, k + 1, validated)
            ELSE IF gap.type = LIST_VALUED THEN [raised |-> TRUE, value |-> <<>>]
            ELSE IF gap.type \notin valid_types
                 THEN ValidateFrom(parsed, k + 1, Append(validated, [gap EXCEPT !.type = "Empirical"]))
            ELSE ValidateFrom(parsed, k + 1, Append(validated, gap))

_parse_gaps_json(raw) ==
    LET cleaned == SelectSeq(raw, LAMBDA t : t.kind # "fence")
        opens == {i \in 1..Len(cleaned) : cleaned[i].kind = "open" \/ HoldsBrackets(cleaned[i])}
        closes == {i \in 1..Len(cleaned) : cleaned[i].kind = "close" \/ HoldsBrackets(cleaned[i])}
    IN IF opens = {} \/ closes = {} THEN [raised |-> FALSE, value |-> <<>>]
       ELSE LET start == CHOOSE i \in opens : \A j \in opens : i <= j
                end == CHOOSE i \in closes : \A j \in closes : i >= j
                loaded == json_loads(cleaned, start, end)
            IN IF ~loaded.ok THEN [raised |-> FALSE, value |-> <<>>]
               ELSE ValidateFrom(loaded.gaps, 1, <<>>)

VARIABLES
    hpc,     \* "ready": the arguments are chosen; "done": the helper has returned
    h_fn,    \* the helper that is called
    h_a,     \* its first argument
    h_b,     \* its second argument (_join_paragraphs only)
    h_text,  \* the text it returned
    h_bool,  \* the truth value it returned
    h_list   \* the list it returned

hvars == <<hpc, h_fn, h_a, h_b, h_text, h_bool, h_list>>

\* the state of the helper calls while another part of the program runs
HelpersIdle ==
    /\ hpc = "off"
    /\ h_fn = ""
    /\ h_a = <<>>
    /\ h_b = <<>>
    /\ h_text = <<>>
    /\ h_bool = FALSE
    /\ h_list = <<>>

(***************************************************************************)
(* app.py: the routes that take an identifier (/progress, /result,         *)
(* /download), the job registry and the results directory.                 *)
(***************************************************************************)
\* identifiers are tried with lengths from ID_LENGTH - MaxIdSlack to ID_LENGTH + MaxIdSlack
MaxIdSlack == 1

ID_LENGTH == 32

HEX_CHARS == {"0", "1", "2", "3", "4", "5", "6", "7", "8", "9", "a", "b", "c", "d", "e", "f"}

\* _is_valid_hex_id without the length test
_is_valid_hex_id_any_length(hex_id) ==
    \A k \in 1..Len(hex_id) : hex_id[k] \in HEX_CHARS

_is_valid_hex_id(hex_id) ==
    /\ Len(hex_id) = ID_LENGTH
    /\ \A k \in 1..Len(hex_id) : hex_id[k] \in HEX_CHARS

\* the characters an identifier of a request is made of
IdChars == {"a", "f", "0", "9", "g", "A", "-"}

\* the identifiers a client can put in the URL
RequestIds ==
    {<<x>> \o Rep("a", n - 2) \o <<y>> :
        x \in IdChars, y \in {"a", "0", "g"},
        n \in (ID_LENGTH - MaxIdSlack)..(ID_LENGTH + MaxIdSlack)}

\* a uuid4().hex value, of a job or of a result
ID_A == Rep("a", ID_LENGTH)

\* names under which other files can lie in the results directory
NAME_G == <<"g">> \o Rep("a", ID_LENGTH - 1)

NAME_SHORT == Rep("a", ID_LENGTH - 1)

\* the keys show_result reads (lines 276-278) and _process_job writes (lines 124-128)
RESULT_KEYS == {"data", "files_analyzed", "files_with_gaps"}

VARIABLES
    apc,         \* "serving" while the application runs
    _jobs,       \* the keys of the job registry
    json_files,  \* the names n for which RESULTS_DIR/n.json is a file
    json_keys,   \* for each of them, the keys of the object the file holds
    xlsx_files,  \* the names n for which RESULTS_DIR/n.xlsx is a file
    request,     \* the last request: route and identifier
    status,      \* the status code of its response
    lookups      \* the registry and file-system lookups made for it, in order

avars == <<apc, _jobs, json_files, json_keys, xlsx_files, request, status, lookups>>

\* the state of the application while another part of the program runs
AppIdle ==
    /\ apc = "off"
    /\ _jobs = {}
    /\ json_files = {}
    /\ json_keys = <<>>
    /\ xlsx_files = {}
    /\ request = [route |-> "", id |-> <<>>]
    /\ status = 0
    /\ lookups = <<>>

(***************************************************************************)
(* pdf_extractor.py, extract_text_by_page: the blocks of a page as          *)
(* page.get_text("blocks") lists them.  type is 0 for a text block, y0 and  *)
(* y1 are the top and bottom coordinates in points.                         *)
(***************************************************************************)
MaxRawBlocks == 2

HEADER_MARGIN == 60

FOOTER_MARGIN == 60

\* page.rect.height of an A4 page, in points
PAGE_HEIGHT == 842

\* text blocks of the body; the first line of a block reaches the header limit
BodyBlocks ==
    {[type |-> 0, left |-> l, y0 |-> y, y1 |-> y + HEADER_MARGIN - 1, text |-> t] :
        l \in BOOLEAN, y \in YCoords, t \in {TComp, THyp}}

\* a running head above the header limit
HeaderBlock == [type |-> 0, left |-> TRUE, y0 |-> 1, y1 |-> HEADER_MARGIN - 1, text |-> <<"h">>]

\* a page number below the footer limit
FooterBlock ==
    [type |-> 0, left |-> TRUE, y0 |-> PAGE_HEIGHT - FOOTER_MARGIN + 1, y1 |-> PAGE_HEIGHT,
     text |-> <<"f">>]

\* an image between the text blocks
ImageBlock == [type |-> 1, left |-> FALSE, y0 |-> 1, y1 |-> HEADER_MARGIN, text |-> <<"i">>]

RawBlocks == BodyBlocks \cup {HeaderBlock, FooterBlock, ImageBlock}

\* the block lists a page can have; the blocks of a page differ in text
RawLayouts ==
    UNION {{bs \in [1..n -> RawBlocks] : \A i, j \in 1..n : i # j => bs[i].text # bs[j].text} :
           n \in 0..MaxRawBlocks}

\* the blocks that reach the column lists: b[6] == 0, and not
\* (y1 < header_limit or y0 > footer_limit)
QualifyingBlocks(blocks) ==
    LET header_limit == HEADER_MARGIN
        footer_limit == PAGE_HEIGHT - FOOTER_MARGIN
    IN SelectSeq(blocks, LAMBDA b : /\ b.type = 0
                                    /\ ~(b.y1 < header_limit \/ b.y0 > footer_limit))

VARIABLES
    xpc,          \* "open" while the generator of extract_text_by_page runs
    doc_page,     \* the number of pages yielded so far
    last_blocks,  \* the blocks of the page loaded last
    last_yield,   \* the tuple yielded last
    prev_number   \* the page number yielded before it, 0 if none

xvars == <<xpc, doc_page, last_blocks, last_yield, prev_number>>

NoYield == [page_number |-> 0, page_text |-> <<>>, trailing_text |-> None, leading_text |-> None]

\* the state of the page source while another part of the program runs
ExtractIdle ==
    /\ xpc = "off"
    /\ doc_page = 0
    /\ last_blocks = <<>>
    /\ last_yield = NoYield
    /\ prev_number = 0

(***************************************************************************)
(* app.py: POST /upload, the job thread _process_job it starts and a        *)
(* progress stream open on the job.  The steps are the stretches of code    *)
(* that run while no lock is released: each `with _jobs_lock` block, with   *)
(* the lock-free code before it.                                            *)
(***************************************************************************)
MaxFiles == 3

MAX_FILE_SIZE == 20 * 1024 * 1024

MAX_TOTAL_SIZE == 50 * 1024 * 1024

\* the sizes of an uploaded file, in bytes
FileSizes == {MAX_FILE_SIZE, MAX_FILE_SIZE + 1}

\* an uploaded file: whether its name ends with '.pdf', and the length of its content
UploadedFiles == [pdf : BOOLEAN, size : FileSizes]

Uploads == UNION {[1..n -> UploadedFiles] : n \in 0..MaxFiles}

\* an upload handler that checks each file's size but no total
RECURSIVE upload_files_without_total(_, _, _, _)
upload_files_without_total(files, k, total_size, saved_files) ==
    IF k > Len(files)
    THEN IF saved_files = <<>> THEN [status |-> 400, saved_files |-> saved_files]
         ELSE [status |-> 200, saved_files |-> saved_files]
    ELSE IF ~files[k].pdf
         THEN upload_files_without_total(files, k + 1, total_size, saved_files)
    ELSE IF files[k].size > MAX_FILE_SIZE THEN [status |-> 400, saved_files |-> saved_files]
    ELSE upload_files_without_total(files, k + 1, total_size + files[k].size,
                                    Append(saved_files, k))

\* the loop of upload_files over the files from the k-th on (lines 176-201)
\* and the test of line 203; saved_files holds the positions of the files
\* written to job_dir
RECURSIVE upload_files(_, _, _, _)
upload_files(files, k, total_size, saved_files) ==
    IF k > Len(files)
    THEN IF saved_files = <<>> THEN [status |-> 400, saved_files |-> saved_files]
         ELSE [status |-> 200, saved_files |-> saved_files]
    ELSE IF ~files[k].pdf THEN upload_files(files, k + 1, total_size, saved_files)
    ELSE IF files[k].size > MAX_FILE_SIZE THEN [status |-> 400, saved_files |-> saved_files]
    ELSE IF total_size + files[k].size > MAX_TOTAL_SIZE
         THEN [status |-> 400, saved_files |-> saved_files]
    ELSE upload_files(files, k + 1, total_size + files[k].size, Append(saved_files, k))

\* _jobs.get(job_id) when the registry has no entry for the job
NoJob == [status |-> "absent", progress |-> <<>>]

SSE(event, data) == [event |-> event, data |-> data]

\* _cleanup_stale_jobs(max_age=3600), line 42
max_age == 3600

\* time.time(), counted from the moment the process started
Times == {0, max_age, max_age + 1}

\* line 45: the job is among the stale ones at time t
IsStale(j, t) == j # NoJob /\ t - j.created_at > max_age

\* lines 207-216: the registry entry of a new job
NewJob(t) ==
    [status |-> "processing", progress |-> <<>>, result_id |-> None,
     error_message |-> None, created_at |-> t]

\* uuid.uuid4().hex of line 112
RESULT_ID == <<"r">>

\* RESULTS_DIR/<result_id>.json before line 123 runs, and once it is open for writing
NoFile == [state |-> "absent"]

PartialFile == [state |-> "partial"]

\* lines 113 and 123-128: the file once json.dump has written and it is closed
ResultJson(data, analyzed) ==
    [state |-> "written", data |-> data, files_analyzed |-> analyzed,
     files_with_gaps |-> Cardinality({data[i].file : i \in 1..Len(data)})]

\* show_result, lines 267-280, on the file of the job's result: no file, a
\* file that json.load cannot read, or a file with the three keys
show_result(file) ==
    IF file.state = "absent" THEN 404
    ELSE IF file.state = "partial" THEN 500
    ELSE 200

\* the files of a later upload: a .pdf file of 20MB, then one that is too large
LATER_FILES == <<[pdf |-> TRUE, size |-> MAX_FILE_SIZE], [pdf |-> TRUE, size |-> MAX_FILE_SIZE + 1]>>

VARIABLES
    jpc,          \* "request": POST /upload received; "responded": answered
    files,        \* request.files.getlist('pdf_files')
    response,     \* the status code of the answer
    on_disk,      \* the positions of the uploaded files that lie in job_dir
    job_dir,      \* whether the directory of the request exists
    saved_files,  \* the argument of _process_job, and _jobs[job_id]["files"]
    job,          \* _jobs[job_id], NoJob if the registry has no entry
    threads,      \* the number of threads started
    tpc,          \* the position of the job thread in _process_job
    file_idx,     \* its loop variable
    files_analyzed, \* its counter of line 64
    json_file,    \* RESULTS_DIR/<result_id>.json: NoFile, PartialFile or what was dumped
    now,          \* the clock
    later_disk,   \* what later uploads have left on disk: <<directory, 0>> for a
                  \* directory, <<directory, k>> for the k-th file of the request in it
    removed,      \* the status the job had when _cleanup_stale_jobs removed it, "none" before
    pushed,       \* the events appended to the job's progress list so far
    spc,          \* the progress stream: "none", "polling", "ended"
    cursor,       \* the generator's cursor
    yielded       \* the events the generator has yielded

jvars == <<jpc, files, response, on_disk, job_dir, saved_files, job, threads, tpc, file_idx,
           files_analyzed, json_file, now, later_disk, removed, pushed, spc, cursor, yielded>>

\* the state of upload, job thread and stream while another part of the program runs
JobIdle ==
    /\ jpc = "off"
    /\ files = <<>>
    /\ response = 0
    /\ on_disk = <<>>
    /\ job_dir = FALSE
    /\ saved_files = <<>>
    /\ job = NoJob
    /\ threads = 0
    /\ tpc = "none"
    /\ file_idx = 0
    /\ files_analyzed = 0
    /\ json_file = NoFile
    /\ now = 0
    /\ later_disk = {}
    /\ removed = "none"
    /\ pushed = <<>>
    /\ spc = "none"
    /\ cursor = 0
    /\ yielded = <<>>

(***************************************************************************)
(* gap_analyzer.py: the module globals _semantic_model and                 *)
(* _anchor_embeddings when several threads run the scoring part of         *)
(* analyze_pages (lines 184-187) in one process: the job threads that      *)
(* app.py starts per upload, or the request threads of POST /process.      *)
(* A step is a test of a global, or the call that follows it with the      *)
(* assignment of its result.                                               *)
(***************************************************************************)
MaxThreads == 2

Threads == 1..MaxThreads

VARIABLES
    gpc,               \* per thread, where it is in lines 184-187 and the two getters
    _semantic_model,   \* the global of line 21: None until line 32 assigns it
    model_loads        \* the calls of SentenceTransformer(...) so far

gvars == <<gpc, _semantic_model, model_loads>>

\* the state of the scoring threads while another part of the program runs
ScoringIdle ==
    /\ gpc = <<>>
    /\ _semantic_model = None
    /\ model_loads = 0

\* the variables of analyze_pages other than the cached anchor embeddings
\* and the record of the encode calls
pages_locals == <<pc, progress_callback, messages, page_num, blocks_used, stream, candidates,
                  pending_visual, pending_page, evals, scores, threshold, top_k, results>>

vars == <<pvars, vvars, evars, hvars, avars, xvars, jvars, gvars>>

\* what the response said last about batch-local index i, NoVerdict if nothing
LastReturnedFor(verdicts, i) ==
    IF \E k \in 1..Len(verdicts) : verdicts[k].index = i
    THEN verdicts[CHOOSE k \in 1..Len(verdicts) :
                     /\ verdicts[k].index = i
                     /\ \A m \in (k + 1)..Len(verdicts) : verdicts[m].index # i]
    ELSE NoVerdict

\* the batch that starts at batch_start, as positions of gaps
BatchPositions == (batch_start + 1)..
    (IF batch_start + VERIFY_BATCH_SIZE < Len(gaps)
     THEN batch_start + VERIFY_BATCH_SIZE ELSE Len(gaps))

\* the state of the page pipeline while the verifier runs
PagesIdle ==
    /\ pc = "idle"
    /\ progress_callback = FALSE
    /\ messages = <<>>
    /\ page_num = 0
    /\ blocks_used = 0
    /\ stream = <<>>
    /\ candidates = <<>>
    /\ pending_visual = <<>>
    /\ pending_page = 0
    /\ evals = <<>>
    /\ scores = <<>>
    /\ threshold = 0
    /\ top_k = 0
    /\ results = <<>>
    /\ _anchor_embeddings = None
    /\ encode_calls = <<>>

InitVerify ==
    /\ vpc = "start"
    /\ \E n \in 0..MaxGaps : gaps = GapsOf(n)
    /\ enriched = <<>>
    /\ batch_start = 0
    /\ calls = <<>>
    /\ llm_last = <<>>
    /\ llm_ungrounded = {}
    /\ report_prompt = <<>>
    /\ report = ""
    /\ PagesIdle
    /\ EngineIdle
    /\ HelpersIdle
    /\ AppIdle
    /\ ExtractIdle
    /\ JobIdle
    /\ ScoringIdle

\* lines 121-125
VerifyStart ==
    /\ vpc = "start"
    /\ IF gaps = <<>>
       THEN vpc' = "returned"
       ELSE vpc' = "loop"
    /\ enriched' = [i \in 1..Len(gaps) |-> dict_display(gaps[i], DefaultVerdict)]
    /\ llm_last' = [i \in 1..Len(gaps) |-> NoVerdict]
    /\ UNCHANGED <<gaps, batch_start, calls, llm_ungrounded, report_prompt, report>>
    /\ UNCHANGED <<pvars, evars, hvars, avars, xvars, jvars, gvars>>

Called(kind) ==
    Append(calls, [start |-> batch_start, size |-> Cardinality(BatchPositions), kind |-> kind])

\* one iteration: the call raises, lines 130-134
BatchCallRaises ==
    /\ vpc = "loop"
    /\ batch_start < Len(gaps)
    /\ calls' = Called("raise")
    /\ batch_start' = batch_start + VERIFY_BATCH_SIZE
    /\ UNCHANGED <<vpc, gaps, enriched, llm_last, llm_ungrounded, report_prompt, report>>
    /\ UNCHANGED <<pvars, evars, hvars, avars, xvars, jvars, gvars>>

\* one iteration: response.parsed is None, so the comprehension of line 136 raises
\* TypeError outside the try block
BatchParsedNone ==
    /\ vpc = "loop"
    /\ batch_start < Len(gaps)
    /\ calls' = Called("none")
    /\ vpc' = "raised"
    /\ UNCHANGED <<gaps, enriched, batch_start, llm_last, llm_ungrounded, report_prompt, report>>
    /\ UNCHANGED <<pvars, evars, hvars, avars, xvars, jvars, gvars>>

\* one iteration: response.parsed is a list of verdicts, lines 136-147
BatchVerdicts ==
    /\ vpc = "loop"
    /\ batch_start < Len(gaps)
    /\ \E verdicts \in ParsedLists :
          /\ enriched' = [p \in 1..Len(gaps) |->
                LET verdict == verdict_map_get(verdicts, p - 1 - batch_start)
                    validated == _validate_evidence(verdict, gaps[p].paragraph)
                IN IF p \in BatchPositions /\ verdict # NoVerdict
                   THEN [enriched[p] EXCEPT !.verdict = validated.verdict,
                                            !.reason = validated.reason,
                                            !.evidence_quote = validated.evidence_quote]
                   ELSE enriched[p]]
          /\ llm_last' = [p \in 1..Len(gaps) |->
                IF p \in BatchPositions
                THEN LastReturnedFor(verdicts, p - 1 - batch_start)
                ELSE llm_last[p]]
          /\ llm_ungrounded' = llm_ungrounded \cup
                {p \in BatchPositions : \E k \in 1..Len(verdicts) :
                    /\ verdicts[k].index = p - 1 - batch_start
                    /\ \/ verdicts[k].evidence_quote = <<>>
                       \/ ~Contains(gaps[p].paragraph, verdicts[k].evidence_quote)}
    /\ calls' = Called("list")
    /\ batch_start' = batch_start + VERIFY_BATCH_SIZE
    /\ UNCHANGED <<vpc, gaps, report_prompt, report>>
    /\ UNCHANGED <<pvars, evars, hvars, avars, xvars, jvars, gvars>>

\* the loop is over: line 149
VerifyReturn ==
    /\ vpc = "loop"
    /\ batch_start >= Len(gaps)
    /\ vpc' = "returned"
    /\ UNCHANGED <<gaps, enriched, batch_start, calls, llm_last, llm_ungrounded,
                   report_prompt, report>>
    /\ UNCHANGED <<pvars, evars, hvars, avars, xvars, jvars, gvars>>

\* generate_report on the verified list, no candidate confirmed: lines 158-166
ReportNoConfirmed ==
    /\ vpc = "returned"
    /\ ~ReportPlan(enriched).call
    /\ report' = NO_CONFIRMED_REPORT
    /\ vpc' = "reported"
    /\ UNCHANGED <<gaps, enriched, batch_start, calls, llm_last, llm_ungrounded, report_prompt>>
    /\ UNCHANGED <<pvars, evars, hvars, avars, xvars, jvars, gvars>>

\* generate_report, lines 168-204: one LLM call, which returns the report text
ReportCallReturns ==
    /\ vpc = "returned"
    /\ ReportPlan(enriched).call
    /\ report_prompt' = Append(report_prompt, gaps_section(ReportPlan(enriched).confirmed))
    /\ report' = "llm report"
    /\ vpc' = "reported"
    /\ UNCHANGED <<gaps, enriched, batch_start, calls, llm_last, llm_ungrounded>>
    /\ UNCHANGED <<pvars, evars, hvars, avars, xvars, jvars, gvars>>

\* generate_report, lines 195-202: the LLM call raises and nothing catches it
ReportCallRaises ==
    /\ vpc = "returned"
    /\ ReportPlan(enriched).call
    /\ report_prompt' = Append(report_prompt, gaps_section(ReportPlan(enriched).confirmed))
    /\ vpc' = "report_raised"
    /\ UNCHANGED <<gaps, enriched, batch_start, calls, llm_last, llm_ungrounded, report>>
    /\ UNCHANGED <<pvars, evars, hvars, avars, xvars, jvars, gvars>>

NextVerify ==
    \/ VerifyStart
    \/ BatchCallRaises
    \/ BatchParsedNone
    \/ BatchVerdicts
    \/ VerifyReturn
    \/ ReportNoConfirmed
    \/ ReportCallReturns
    \/ ReportCallRaises

\* the state of the verifier while the page pipeline runs
VerifyIdle ==
    /\ vpc = "idle"
    /\ gaps = <<>>
    /\ enriched = <<>>
    /\ batch_start = 0
    /\ calls = <<>>
    /\ llm_last = <<>>
    /\ llm_ungrounded = {}
    /\ report_prompt = <<>>
    /\ report = ""

InitPages ==
    /\ pc = "pages"
    /\ progress_callback \in BOOLEAN
    /\ messages = <<>>
    /\ page_num = 0
    /\ blocks_used = 0
    /\ stream = <<>>
    /\ candidates = <<>>
    /\ pending_visual = <<>>
    /\ pending_page = 0
    /\ evals = <<>>
    /\ scores = <<>>
    /\ threshold = 0
    /\ top_k = 0
    /\ results = <<>>
    /\ _anchor_embeddings = None
    /\ encode_calls = <<>>
    /\ VerifyIdle
    /\ EngineIdle
    /\ HelpersIdle
    /\ AppIdle
    /\ ExtractIdle
    /\ JobIdle
    /\ ScoringIdle

\* lines 110-114: the signature has pages, threshold and top_k only, so a call
\* with the keyword progress_callback raises TypeError before the body runs
CallWithProgressCallback ==
    /\ pc = "pages"
    /\ progress_callback
    /\ pc' = "type_error"
    /\ UNCHANGED <<progress_callback, messages, page_num, blocks_used, stream, candidates,
                   pending_visual, pending_page, evals, scores, threshold, top_k, results,
                   _anchor_embeddings, encode_calls>>
    /\ UNCHANGED <<vvars, evars, hvars, avars, xvars, jvars, gvars>>

\* the page source yields the next page and the loop body runs on it
NextPage ==
    /\ pc = "pages"
    /\ ~progress_callback
    /\ page_num < MaxPages
    /\ \E n \in 0..(MaxBlocks - blocks_used) : \E rec \in PageRecords[n] :
          LET st == [candidates |-> candidates, evals |-> evals,
                     pending_visual |-> pending_visual, pending_page |-> pending_page]
          IN \E new \in {PageBody(st, rec, page_num + 1)} :
                /\ page_num' = page_num + 1
                /\ blocks_used' = blocks_used + n
                /\ stream' = Append(stream, rec)
                /\ candidates' = new.candidates
                /\ evals' = new.evals
                /\ pending_visual' = new.pending_visual
                /\ pending_page' = new.pending_page
    /\ UNCHANGED <<pc, progress_callback, messages, scores, threshold, top_k, results,
                   _anchor_embeddings, encode_calls>>
    /\ UNCHANGED <<vvars, evars, hvars, avars, xvars, jvars, gvars>>

\* the stream is exhausted: lines 177-200
Finish ==
    /\ pc = "pages"
    /\ ~progress_callback
    /\ LET acc0 == [cands |-> candidates, evals |-> evals]
       IN \E acc \in {IF Truthy(pending_visual)
                      THEN Evaluate(acc0, "final", pending_page, page_num + 1, pending_visual)
                      ELSE acc0} :
             /\ candidates' = acc.cands
             /\ evals' = acc.evals
             /\ \E th \in 0..MaxScore : \E k \in 0..MaxTopK : \E sc \in ScoreVectors(acc.cands) :
                   /\ threshold' = th
                   /\ top_k' = k
                   /\ scores' = sc
                   /\ results' = IF acc.cands = <<>> THEN <<>> ELSE Select(acc.cands, sc, th, k)
             /\ encode_calls' = encode_calls \o ScoringCalls(acc.cands, _anchor_embeddings)
             /\ _anchor_embeddings' = IF acc.cands = <<>> THEN _anchor_embeddings ELSE <<"tensor">>
    /\ pc' = "done"
    /\ UNCHANGED <<progress_callback, messages, page_num, blocks_used, stream,
                   pending_visual, pending_page>>
    /\ UNCHANGED <<vvars, evars, hvars, avars, xvars, jvars, gvars>>

NextPages == CallWithProgressCallback \/ NextPage \/ Finish

SpecPages == InitPages /\ [][NextPages]_vars

SpecVerify == InitVerify /\ [][NextVerify]_vars

(***************************************************************************)
(* rag_engine.py: the operations of one GapFinderAI engine.                *)
(***************************************************************************)
InitEngine ==
    /\ epc = "idle"
    /\ mode \in {"local", "cloud"}
    /\ _vectorstore = 0
    /\ ingests = 0
    /\ ops = 0
    /\ callback = FALSE
    /\ etrace = <<>>
    /\ first_error = <<>>
    /\ elast = [op |-> "__init__", store |-> 0, outcome |-> "returned"]
    /\ ehist = <<>>
    /\ PagesIdle
    /\ VerifyIdle
    /\ HelpersIdle
    /\ AppIdle
    /\ ExtractIdle
    /\ JobIdle
    /\ ScoringIdle

Event(ev, arg, class) == [ev |-> ev, arg |-> arg, class |-> class]

\* one generate_content call and what it did
CallEvent(outcome) ==
    Event("generate_content", outcome.code, IF outcome.kind = "ok" THEN "" ELSE outcome.class)

\* ingest_pdf, lines 87-111: the loader raises, or there is no chunk and the
\* store is left as it was, or a new store is built
IngestPdf ==
    /\ epc = "idle"
    /\ ops < MaxOps
    /\ ops' = ops + 1
    /\ ingests' = ingests + 1
    /\ \E result \in {"raise", "empty", "chunks"} :
          /\ _vectorstore' = IF result = "chunks" THEN ingests + 1 ELSE _vectorstore
          /\ elast' = [op |-> "ingest_pdf", store |-> _vectorstore,
                       outcome |-> IF result = "raise" THEN "raised" ELSE "returned"]
          /\ ehist' = Append(ehist, [op |-> "ingest_pdf", built |-> result = "chunks",
                                     result |-> result])
    /\ etrace' = <<>>
    /\ first_error' = <<>>
    /\ UNCHANGED <<epc, mode, callback>>
    /\ UNCHANGED <<pvars, vvars, hvars, avars, xvars, jvars, gvars>>

\* analyze_gaps, lines 119-150, up to the LLM call of cloud mode
AnalyzeGaps ==
    /\ epc = "idle"
    /\ ops < MaxOps
    /\ ops' = ops + 1
    /\ \E cb \in BOOLEAN : \E retrieved \in {"raise", "none", "chunks"} :
       \E llm \in {"ok", "error"} :
          LET search == Event("similarity_search", _vectorstore, "")
              running(pc2, tr, out) ==
                  /\ epc' = pc2
                  /\ etrace' = tr
                  /\ elast' = [op |-> "analyze_gaps", store |-> _vectorstore, outcome |-> out]
          IN /\ callback' = cb
             /\ IF _vectorstore = 0
                THEN running("idle", <<>>, "RuntimeError")
                ELSE IF retrieved = "raise"
                THEN running("idle", <<search>>, "raised")
                ELSE IF retrieved = "none"
                THEN running("idle", <<search>>, "returned")
                ELSE IF mode = "local"
                THEN running("idle", <<search, Event("invoke", 0, "")>>,
                             IF llm = "ok" THEN "returned" ELSE "raised")
                ELSE running("first", <<search>>, "running")
    /\ first_error' = <<>>
    /\ ehist' = Append(ehist, [op |-> "analyze_gaps", built |-> FALSE, result |-> ""])
    /\ UNCHANGED <<mode, _vectorstore, ingests>>
    /\ UNCHANGED <<pvars, vvars, hvars, avars, xvars, jvars, gvars>>

\* _call_gemini, lines 158-174: the first call; on a 429 the delay is parsed,
\* the callback is told and the thread sleeps
GeminiFirstCall ==
    /\ epc = "first"
    /\ \E outcome \in CallOutcomes :
          IF outcome.kind = "ok"
          THEN /\ etrace' = Append(etrace, CallEvent(outcome))
               /\ epc' = "idle"
               /\ elast' = [elast EXCEPT !.outcome = "returned"]
               /\ UNCHANGED first_error
          ELSE IF ~Retries(outcome)
          THEN /\ etrace' = Append(etrace, CallEvent(outcome))
               /\ epc' = "idle"
               /\ elast' = [elast EXCEPT !.outcome = "raised"]
               /\ UNCHANGED first_error
          ELSE \E msg \in ErrorMessages :
                  LET wait == _parse_retry_delay(msg, DEFAULT_RETRY_DELAY)
                      notify == IF callback
                                THEN <<Event("progress_callback", wait, "")>> ELSE <<>>
                  IN /\ etrace' = Append(etrace, CallEvent(outcome)) \o notify
                                      \o <<Event("sleep", wait, "")>>
                     /\ epc' = "second"
                     /\ first_error' = msg
                     /\ UNCHANGED elast
    /\ UNCHANGED <<mode, _vectorstore, ingests, ops, callback, ehist>>
    /\ UNCHANGED <<pvars, vvars, hvars, avars, xvars, jvars, gvars>>

\* _call_gemini, lines 176-181: the second call, outside every try block
GeminiSecondCall ==
    /\ epc = "second"
    /\ \E outcome \in CallOutcomes :
          /\ etrace' = Append(etrace, CallEvent(outcome))
          /\ elast' = [elast EXCEPT !.outcome = IF outcome.kind = "ok" THEN "returned"
                                                ELSE "raised"]
    /\ epc' = "idle"
    /\ UNCHANGED <<mode, _vectorstore, ingests, ops, callback, first_error, ehist>>
    /\ UNCHANGED <<pvars, vvars, hvars, avars, xvars, jvars, gvars>>

\* cleanup, lines 185-190: an exception of delete_collection is swallowed
Cleanup ==
    /\ epc = "idle"
    /\ ops < MaxOps
    /\ ops' = ops + 1
    /\ \E delete_raises \in BOOLEAN :
          etrace' = IF cleanup(_vectorstore).deleted
                    THEN <<Event("delete_collection", _vectorstore,
                                 IF delete_raises THEN "Exception" ELSE "")>>
                    ELSE <<>>
    /\ _vectorstore' = cleanup(_vectorstore).vectorstore
    /\ elast' = [op |-> "cleanup", store |-> _vectorstore, outcome |-> "returned"]
    /\ first_error' = <<>>
    /\ ehist' = Append(ehist, [op |-> "cleanup", built |-> FALSE, result |-> ""])
    /\ UNCHANGED <<epc, mode, ingests, callback>>
    /\ UNCHANGED <<pvars, vvars, hvars, avars, xvars, jvars, gvars>>

NextEngine ==
    \/ IngestPdf
    \/ AnalyzeGaps
    \/ GeminiFirstCall
    \/ GeminiSecondCall
    \/ Cleanup

SpecEngine == InitEngine /\ [][NextEngine]_vars

(***************************************************************************)
(* gap_analyzer.py, rag_engine.py: one call of a helper.                   *)
(***************************************************************************)
InitHelpers ==
    /\ hpc = "ready"
    /\ \/ h_fn = "_join_paragraphs" /\ h_a \in Fragments /\ h_b \in Fragments
       \/ h_fn = "_is_incomplete" /\ h_a \in Fragments \cup EndingTexts /\ h_b = <<>>
       \/ h_fn = "_is_scorable_paragraph" /\ h_a \in ParagraphTexts /\ h_b = <<>>
       \/ h_fn = "_parse_gaps_json" /\ h_a \in RawOutputs /\ h_b = <<>>
    /\ h_text = <<>>
    /\ h_bool = FALSE
    /\ h_list = <<>>
    /\ PagesIdle
    /\ VerifyIdle
    /\ EngineIdle
    /\ AppIdle
    /\ ExtractIdle
    /\ JobIdle
    /\ ScoringIdle

CallJoinParagraphs ==
    /\ hpc = "ready"
    /\ h_fn = "_join_paragraphs"
    /\ h_text' = _join_paragraphs(h_a, h_b)
    /\ hpc' = "done"
    /\ UNCHANGED <<h_fn, h_a, h_b, h_bool, h_list>>
    /\ UNCHANGED <<pvars, vvars, evars, avars, xvars, jvars, gvars>>

CallIsIncomplete ==
    /\ hpc = "ready"
    /\ h_fn = "_is_incomplete"
    /\ h_bool' = _is_incomplete(h_a)
    /\ hpc' = "done"
    /\ UNCHANGED <<h_fn, h_a, h_b, h_text, h_list>>
    /\ UNCHANGED <<pvars, vvars, evars, avars, xvars, jvars, gvars>>

CallIsScorableParagraph ==
    /\ hpc = "ready"
    /\ h_fn = "_is_scorable_paragraph"
    /\ h_bool' = _is_scorable_paragraph(h_a)
    /\ hpc' = "done"
    /\ UNCHANGED <<h_fn, h_a, h_b, h_text, h_list>>
    /\ UNCHANGED <<pvars, vvars, evars, avars, xvars, jvars, gvars>>

\* hpc = "raised" when the call ends with an exception
CallParseGapsJson ==
    /\ hpc = "ready"
    /\ h_fn = "_parse_gaps_json"
    /\ LET result == _parse_gaps_json(h_a)
       IN /\ h_list' = result.value
          /\ hpc' = IF result.raised THEN "raised" ELSE "done"
    /\ UNCHANGED <<h_fn, h_a, h_b, h_text, h_bool>>
    /\ UNCHANGED <<pvars, vvars, evars, avars, xvars, jvars, gvars>>

NextHelpers ==
    \/ CallJoinParagraphs
    \/ CallIsIncomplete
    \/ CallIsScorableParagraph
    \/ CallParseGapsJson

SpecHelpers == InitHelpers /\ [][NextHelpers]_vars

(***************************************************************************)
(* app.py: requests to the routes that take an identifier.                 *)
(***************************************************************************)
\* the registry holds jobs of earlier uploads, the results directory files of
\* earlier jobs and files put there by others
InitApp ==
    /\ apc = "serving"
    /\ _jobs \in SUBSET {ID_A}
    /\ json_files \in SUBSET {ID_A, NAME_SHORT}
    /\ \E keys \in {RESULT_KEYS, {"data", "files_analyzed"}} :
          json_keys = [n \in json_files |-> IF n = ID_A THEN keys ELSE RESULT_KEYS]
    /\ xlsx_files \in SUBSET {ID_A, NAME_G}
    /\ request = [route |-> "", id |-> <<>>]
    /\ status = 0
    /\ lookups = <<>>
    /\ PagesIdle
    /\ VerifyIdle
    /\ EngineIdle
    /\ HelpersIdle
    /\ ExtractIdle
    /\ JobIdle
    /\ ScoringIdle

Lookup(what, name) == [what |-> what, name |-> name]

\* progress_stream, lines 226-259
ProgressStream ==
    /\ apc = "serving"
    /\ \E job_id \in RequestIds :
          /\ request' = [route |-> "/progress", id |-> job_id]
          /\ IF ~_is_valid_hex_id(job_id)
             THEN status' = 400 /\ lookups' = <<>>
             ELSE /\ lookups' = <<Lookup("_jobs", job_id)>>
                  /\ status' = IF job_id \notin _jobs THEN 404 ELSE 200
    /\ UNCHANGED <<apc, _jobs, json_files, json_keys, xlsx_files>>
    /\ UNCHANGED <<pvars, vvars, evars, hvars, xvars, jvars, gvars>>

\* show_result, lines 264-280
ShowResult ==
    /\ apc = "serving"
    /\ \E result_id \in RequestIds :
          /\ request' = [route |-> "/result", id |-> result_id]
          /\ IF ~_is_valid_hex_id(result_id)
             THEN status' = 400 /\ lookups' = <<>>
             ELSE /\ lookups' = <<Lookup("isfile json", result_id)>>
                  /\ status' = IF result_id \notin json_files THEN 404
                               ELSE IF RESULT_KEYS \subseteq json_keys[result_id] THEN 200
                               ELSE 500  \* KeyError at lines 276-278
    /\ UNCHANGED <<apc, _jobs, json_files, json_keys, xlsx_files>>
    /\ UNCHANGED <<pvars, vvars, evars, hvars, xvars, jvars, gvars>>

\* download, lines 365-377
Download ==
    /\ apc = "serving"
    /\ \E result_id \in RequestIds :
          /\ request' = [route |-> "/download", id |-> result_id]
          /\ IF ~_is_valid_hex_id(result_id)
             THEN status' = 400 /\ lookups' = <<>>
             ELSE /\ lookups' = <<Lookup("isfile xlsx", result_id)>>
                  /\ status' = IF result_id \notin xlsx_files THEN 400 ELSE 200
    /\ UNCHANGED <<apc, _jobs, json_files, json_keys, xlsx_files>>
    /\ UNCHANGED <<pvars, vvars, evars, hvars, xvars, jvars, gvars>>

NextApp ==
    \/ ProgressStream
    \/ ShowResult
    \/ Download

SpecApp == InitApp /\ [][NextApp]_vars

(***************************************************************************)
(* extract_text_by_page on a document of at most MaxPages pages.           *)
(***************************************************************************)
InitExtract ==
    /\ xpc = "open"
    /\ doc_page = 0
    /\ last_blocks = <<>>
    /\ last_yield = NoYield
    /\ prev_number = 0
    /\ PagesIdle
    /\ VerifyIdle
    /\ EngineIdle
    /\ HelpersIdle
    /\ AppIdle
    /\ JobIdle
    /\ ScoringIdle

\* one iteration of the loop over range(len(doc)): load the page, extract, yield
YieldPage ==
    /\ xpc = "open"
    /\ doc_page < MaxPages
    /\ \E blocks \in RawLayouts :
          LET rec == _extract_blocks_column_aware(QualifyingBlocks(blocks))
          IN /\ last_blocks' = blocks
             /\ last_yield' = [page_number |-> doc_page + 1, page_text |-> rec.page_text,
                               trailing_text |-> rec.trailing_text,
                               leading_text |-> rec.leading_text]
    /\ prev_number' = last_yield.page_number
    /\ doc_page' = doc_page + 1
    /\ UNCHANGED xpc
    /\ UNCHANGED <<pvars, vvars, evars, hvars, avars, jvars, gvars>>

\* the loop ends after the last page of the document: doc.close()
CloseDocument ==
    /\ xpc = "open"
    /\ xpc' = "closed"
    /\ UNCHANGED <<doc_page, last_blocks, last_yield, prev_number>>
    /\ UNCHANGED <<pvars, vvars, evars, hvars, avars, jvars, gvars>>

NextExtract == YieldPage \/ CloseDocument

SpecExtract == InitExtract /\ [][NextExtract]_vars

(***************************************************************************)
(* app.py: one upload, its job thread and one progress stream.             *)
(***************************************************************************)
InitJob ==
    /\ jpc = "request"
    /\ files \in Uploads
    /\ response = 0
    /\ on_disk = <<>>
    /\ job_dir = FALSE
    /\ saved_files = <<>>
    /\ job = NoJob
    /\ threads = 0
    /\ tpc = "none"
    /\ file_idx = 0
    /\ files_analyzed = 0
    /\ json_file = NoFile
    /\ now = 0
    /\ later_disk = {}
    /\ removed = "none"
    /\ pushed = <<>>
    /\ spc = "none"
    /\ cursor = 0
    /\ yielded = <<>>
    /\ PagesIdle
    /\ VerifyIdle
    /\ EngineIdle
    /\ HelpersIdle
    /\ AppIdle
    /\ ExtractIdle
    /\ ScoringIdle

\* upload_files, lines 167-221: the registry is empty, so _cleanup_stale_jobs
\* finds nothing; job_dir is made at line 175, before any file is looked at
Upload ==
    /\ jpc = "request"
    /\ LET r == upload_files(files, 1, 0, <<>>)
       IN /\ response' = r.status
          /\ on_disk' = r.saved_files
          /\ IF r.status = 200
             THEN /\ job' = NewJob(now)
                  /\ saved_files' = r.saved_files
                  /\ threads' = threads + 1
                  /\ tpc' = "loop"
                  /\ file_idx' = 1
             ELSE UNCHANGED <<job, saved_files, threads, tpc, file_idx>>
    /\ job_dir' = TRUE
    /\ jpc' = "responded"
    /\ UNCHANGED <<files, files_analyzed, json_file, now, later_disk, removed, pushed, spc,
                   cursor, yielded>>
    /\ UNCHANGED <<pvars, vvars, evars, hvars, avars, xvars, gvars>>

\* the clock moves on while the job is in the registry
TimePasses ==
    /\ job # NoJob
    /\ \E t \in Times : t > now /\ now' = t
    /\ UNCHANGED <<jpc, files, response, on_disk, job_dir, saved_files, job, threads, tpc,
                   file_idx, files_analyzed, json_file, later_disk, removed, pushed, spc,
                   cursor, yielded>>
    /\ UNCHANGED <<pvars, vvars, evars, hvars, avars, xvars, gvars>>

\* a later POST /upload with LATER_FILES (lines 167-205): _cleanup_stale_jobs
\* (lines 42-58) removes the job, its files and its directory if the job is
\* older than max_age, whatever its status; then the request makes its own
\* directory, saves its first file there, and answers 400 at the second
LaterUpload ==
    /\ jpc = "responded"
    /\ IF IsStale(job, now)
       THEN /\ on_disk' = <<>>
            /\ job_dir' = FALSE
            /\ removed' = job.status
            /\ job' = NoJob
       ELSE UNCHANGED <<on_disk, job_dir, removed, job>>
    /\ LET r == upload_files(LATER_FILES, 1, 0, <<>>)
       IN later_disk' = later_disk \cup {<<"later job_dir", 0>>}
                           \cup {<<"later job_dir", r.saved_files[i]>> : i \in 1..Len(r.saved_files)}
    /\ UNCHANGED <<jpc, files, response, saved_files, threads, tpc, file_idx, files_analyzed,
                   json_file, now, pushed, spc, cursor, yielded>>
    /\ UNCHANGED <<pvars, vvars, evars, hvars, avars, xvars, gvars>>

\* _push_progress(job_id, message, event), lines 36-39
_push_progress(message, event) ==
    IF job = NoJob THEN job
    ELSE [job EXCEPT !.progress = Append(@, SSE(event, message))]

\* the events appended so far, after _push_progress(job_id, message, event)
Pushed(message, event) ==
    IF job = NoJob THEN pushed ELSE Append(pushed, SSE(event, message))

\* the file of the k-th entry of saved_files is where upload_files wrote it
FileOnDisk(k) == \E i \in 1..Len(on_disk) : on_disk[i] = saved_files[k]

\* line 69: "Processing file i of n"
ThreadProcessingFile ==
    /\ tpc = "loop"
    /\ file_idx <= Len(saved_files)
    /\ job' = _push_progress(<<"Processing file", file_idx>>, "progress")
    /\ pushed' = Pushed(<<"Processing file", file_idx>>, "progress")
    /\ tpc' = "metadata"
    /\ UNCHANGED <<jpc, files, response, on_disk, job_dir, saved_files, threads, file_idx,
                   files_analyzed, json_file, now, later_disk, removed, spc, cursor, yielded>>
    /\ UNCHANGED <<pvars, vvars, evars, hvars, avars, xvars, gvars>>

\* lines 71-72: the file is gone, open raises outside the inner try blocks
ThreadOpenFails ==
    /\ tpc = "metadata"
    /\ ~FileOnDisk(file_idx)
    /\ tpc' = "except"
    /\ UNCHANGED <<jpc, files, response, on_disk, job_dir, saved_files, job, threads, file_idx,
                   files_analyzed, json_file, now, later_disk, removed, pushed, spc, cursor,
                   yielded>>
    /\ UNCHANGED <<pvars, vvars, evars, hvars, avars, xvars, gvars>>

\* lines 71-79: extract_metadata raises
ThreadMetadataFails ==
    /\ tpc = "metadata"
    /\ FileOnDisk(file_idx)
    /\ job' = _push_progress(<<"Skipping: could not read metadata", file_idx>>, "progress")
    /\ pushed' = Pushed(<<"Skipping: could not read metadata", file_idx>>, "progress")
    /\ file_idx' = file_idx + 1
    /\ tpc' = "loop"
    /\ UNCHANGED <<jpc, files, response, on_disk, job_dir, saved_files, threads,
                   files_analyzed, json_file, now, later_disk, removed, spc, cursor, yielded>>
    /\ UNCHANGED <<pvars, vvars, evars, hvars, avars, xvars, gvars>>

\* lines 71-82: extract_metadata returns
ThreadExtracting ==
    /\ tpc = "metadata"
    /\ FileOnDisk(file_idx)
    /\ job' = _push_progress(<<"Extracting text...", file_idx>>, "progress")
    /\ pushed' = Pushed(<<"Extracting text...", file_idx>>, "progress")
    /\ tpc' = "analyze"
    /\ UNCHANGED <<jpc, files, response, on_disk, job_dir, saved_files, threads, file_idx,
                   files_analyzed, json_file, now, later_disk, removed, spc, cursor, yielded>>
    /\ UNCHANGED <<pvars, vvars, evars, hvars, avars, xvars, gvars>>

\* lines 84-92: analyze_pages is called with the keyword progress_callback,
\* which it does not take; the TypeError is caught at line 90, and line 94 is
\* never reached
ThreadAnalysisFails ==
    /\ tpc = "analyze"
    /\ job' = _push_progress(<<"Skipping: analysis failed", file_idx>>, "progress")
    /\ pushed' = Pushed(<<"Skipping: analysis failed", file_idx>>, "progress")
    /\ file_idx' = file_idx + 1
    /\ tpc' = "loop"
    /\ UNCHANGED <<jpc, files, response, on_disk, job_dir, saved_files, threads,
                   files_analyzed, json_file, now, later_disk, removed, spc, cursor, yielded>>
    /\ UNCHANGED <<pvars, vvars, evars, hvars, avars, xvars, gvars>>

\* lines 110-123: the loop is over; data is empty, so no spreadsheet is
\* written; the JSON file is opened for writing
ThreadOpensJson ==
    /\ tpc = "loop"
    /\ file_idx > Len(saved_files)
    /\ json_file' = PartialFile
    /\ tpc' = "dumping"
    /\ UNCHANGED <<jpc, files, response, on_disk, job_dir, saved_files, job, threads, file_idx,
                   files_analyzed, now, later_disk, removed, pushed, spc, cursor, yielded>>
    /\ UNCHANGED <<pvars, vvars, evars, hvars, avars, xvars, gvars>>

\* lines 124-128: json.dump, and the file is closed
ThreadDumpsJson ==
    /\ tpc = "dumping"
    /\ json_file' = ResultJson(<<>>, files_analyzed)
    /\ tpc' = "written"
    /\ UNCHANGED <<jpc, files, response, on_disk, job_dir, saved_files, job, threads, file_idx,
                   files_analyzed, now, later_disk, removed, pushed, spc, cursor, yielded>>
    /\ UNCHANGED <<pvars, vvars, evars, hvars, avars, xvars, gvars>>

\* lines 110-128 raise: open fails and there is no file, or the write fails
\* and a part of the file stays
ThreadWriteRaises ==
    /\ \/ tpc = "loop" /\ file_idx > Len(saved_files)
       \/ tpc = "dumping"
    /\ tpc' = "except"
    /\ UNCHANGED <<jpc, files, response, on_disk, job_dir, saved_files, job, threads, file_idx,
                   files_analyzed, json_file, now, later_disk, removed, pushed, spc, cursor,
                   yielded>>
    /\ UNCHANGED <<pvars, vvars, evars, hvars, avars, xvars, gvars>>

\* the block of lines 130-132 without line 132
ThreadSetsCompleteWithoutResultId ==
    /\ tpc = "written"
    /\ IF job = NoJob
       THEN /\ tpc' = "except"
            /\ UNCHANGED job
       ELSE /\ job' = [job EXCEPT !.status = "complete"]
            /\ tpc' = "status_set"
    /\ UNCHANGED <<jpc, files, response, on_disk, job_dir, saved_files, threads, file_idx,
                   files_analyzed, json_file, now, later_disk, removed, pushed, spc, cursor,
                   yielded>>
    /\ UNCHANGED <<pvars, vvars, evars, hvars, avars, xvars, gvars>>

\* the block of lines 130-132 entered as soon as the JSON file is open
ThreadSetsCompleteBeforeDump ==
    /\ tpc \in {"dumping", "written"}
    /\ IF job = NoJob
       THEN /\ tpc' = "except"
            /\ UNCHANGED job
       ELSE /\ job' = [job EXCEPT !.status = "complete", !.result_id = RESULT_ID]
            /\ tpc' = "status_set"
    /\ UNCHANGED <<jpc, files, response, on_disk, job_dir, saved_files, threads, file_idx,
                   files_analyzed, json_file, now, later_disk, removed, pushed, spc, cursor,
                   yielded>>
    /\ UNCHANGED <<pvars, vvars, evars, hvars, avars, xvars, gvars>>

\* lines 130-132: status and result_id are set under the lock; the
\* subscription _jobs[job_id] raises KeyError if the entry is gone
ThreadSetsComplete ==
    /\ tpc = "written"
    /\ IF job = NoJob
       THEN /\ tpc' = "except"
            /\ UNCHANGED job
       ELSE /\ job' = [job EXCEPT !.status = "complete", !.result_id = RESULT_ID]
            /\ tpc' = "status_set"
    /\ UNCHANGED <<jpc, files, response, on_disk, job_dir, saved_files, threads, file_idx,
                   files_analyzed, json_file, now, later_disk, removed, pushed, spc, cursor,
                   yielded>>
    /\ UNCHANGED <<pvars, vvars, evars, hvars, avars, xvars, gvars>>

\* lines 136-139: the handler sets status and error_message under the lock;
\* if the entry is gone the subscription raises KeyError inside the handler,
\* and nothing catches that
ThreadSetsError ==
    /\ tpc = "except"
    /\ IF job = NoJob
       THEN /\ tpc' = "finally_raising"
            /\ UNCHANGED job
       ELSE /\ job' = [job EXCEPT !.status = "error", !.error_message = <<"e">>]
            /\ tpc' = "status_set"
    /\ UNCHANGED <<jpc, files, response, on_disk, job_dir, saved_files, threads, file_idx,
                   files_analyzed, json_file, now, later_disk, removed, pushed, spc, cursor,
                   yielded>>
    /\ UNCHANGED <<pvars, vvars, evars, hvars, avars, xvars, gvars>>

\* line 134, or line 140: the terminal event is pushed
ThreadPushesTerminal ==
    /\ tpc = "status_set"
    /\ IF job.status = "complete"
       THEN /\ job' = _push_progress(<<"result_id", 0>>, "complete")
            /\ pushed' = Pushed(<<"result_id", 0>>, "complete")
       ELSE /\ job' = _push_progress(<<"error message", 0>>, "error")
            /\ pushed' = Pushed(<<"error message", 0>>, "error")
    /\ tpc' = "finally"
    /\ UNCHANGED <<jpc, files, response, on_disk, job_dir, saved_files, threads, file_idx,
                   files_analyzed, json_file, now, later_disk, removed, spc, cursor, yielded>>
    /\ UNCHANGED <<pvars, vvars, evars, hvars, avars, xvars, gvars>>

\* a finally block that cleans up only when the job is complete
ThreadCleansUpOnComplete ==
    /\ tpc \in {"finally", "finally_raising"}
    /\ IF job # NoJob /\ job.status = "complete"
       THEN /\ on_disk' = <<>>
            /\ job_dir' = FALSE
       ELSE UNCHANGED <<on_disk, job_dir>>
    /\ tpc' = IF tpc = "finally" THEN "ended" ELSE "crashed"
    /\ UNCHANGED <<jpc, files, response, saved_files, job, threads, file_idx, files_analyzed,
                   json_file, now, later_disk, removed, pushed, spc, cursor, yielded>>
    /\ UNCHANGED <<pvars, vvars, evars, hvars, avars, xvars, gvars>>

\* lines 142-157: if the entry is there, its files and job_dir are removed;
\* then the thread ends, with the KeyError of line 138 if that was raised
ThreadCleansUp ==
    /\ tpc \in {"finally", "finally_raising"}
    /\ IF job # NoJob
       THEN /\ on_disk' = <<>>
            /\ job_dir' = FALSE
       ELSE UNCHANGED <<on_disk, job_dir>>
    /\ tpc' = IF tpc = "finally" THEN "ended" ELSE "crashed"
    /\ UNCHANGED <<jpc, files, response, saved_files, job, threads, file_idx, files_analyzed,
                   json_file, now, later_disk, removed, pushed, spc, cursor, yielded>>
    /\ UNCHANGED <<pvars, vvars, evars, hvars, avars, xvars, gvars>>

\* progress_stream, lines 226-231, for the id of the registered job
StreamOpens ==
    /\ spc = "none"
    /\ job # NoJob
    /\ spc' = "polling"
    /\ UNCHANGED <<jpc, files, response, on_disk, job_dir, saved_files, job, threads, tpc,
                   file_idx, files_analyzed, json_file, now, later_disk, removed, pushed,
                   cursor, yielded>>
    /\ UNCHANGED <<pvars, vvars, evars, hvars, avars, xvars, gvars>>

\* one iteration of generate(), lines 235-250
StreamPolls ==
    /\ spc = "polling"
    /\ IF job = NoJob
       THEN /\ spc' = "ended"
            /\ UNCHANGED <<cursor, yielded>>
       ELSE LET events == SubSeq(job.progress, cursor + 1, Len(job.progress))
                status_read == job.status
            IN /\ cursor' = cursor + Len(events)
               /\ yielded' = yielded \o events
               /\ spc' = IF status_read \in {"complete", "error"} THEN "ended" ELSE "polling"
    /\ UNCHANGED <<jpc, files, response, on_disk, job_dir, saved_files, job, threads, tpc,
                   file_idx, files_analyzed, json_file, now, later_disk, removed, pushed>>
    /\ UNCHANGED <<pvars, vvars, evars, hvars, avars, xvars, gvars>>

NextJob ==
    \/ Upload
    \/ TimePasses
    \/ LaterUpload
    \/ ThreadProcessingFile
    \/ ThreadOpenFails
    \/ ThreadMetadataFails
    \/ ThreadExtracting
    \/ ThreadAnalysisFails
    \/ ThreadOpensJson
    \/ ThreadDumpsJson
    \/ ThreadWriteRaises
    \/ ThreadSetsComplete
    \/ ThreadSetsError
    \/ ThreadPushesTerminal
    \/ ThreadCleansUp
    \/ StreamOpens
    \/ StreamPolls

SpecJob == InitJob /\ [][NextJob]_vars

(***************************************************************************)
(* gap_analyzer.py: threads in lines 184-187 of analyze_pages, each with a *)
(* non-empty candidate list, in a process that has not loaded the model.   *)
(***************************************************************************)
InitScoring ==
    /\ gpc = [t \in Threads |-> "get_model"]
    /\ _semantic_model = None
    /\ model_loads = 0
    /\ PagesIdle
    /\ VerifyIdle
    /\ EngineIdle
    /\ HelpersIdle
    /\ AppIdle
    /\ ExtractIdle
    /\ JobIdle

\* _get_model, line 31: the test `_semantic_model is None`, reached from line
\* 184 or from line 40; no lock is held between the test and line 32
TestModel ==
    /\ \E t \in Threads :
          /\ gpc[t] \in {"get_model", "anchors_get_model"}
          /\ gpc' = [gpc EXCEPT ![t] =
                IF _semantic_model = None
                THEN (IF gpc[t] = "get_model" THEN "load_model" ELSE "anchors_load_model")
                ELSE (IF gpc[t] = "get_model" THEN "get_anchors" ELSE "encode_anchors")]
    /\ UNCHANGED <<_semantic_model, model_loads>>
    /\ UNCHANGED <<pvars, vvars, evars, hvars, avars, xvars, jvars>>

\* _get_model, line 32: the model is loaded and assigned to the global
LoadModel ==
    /\ \E t \in Threads :
          /\ gpc[t] \in {"load_model", "anchors_load_model"}
          /\ gpc' = [gpc EXCEPT ![t] =
                IF gpc[t] = "load_model" THEN "get_anchors" ELSE "encode_anchors"]
    /\ _semantic_model' = <<"model">>
    /\ model_loads' = model_loads + 1
    /\ UNCHANGED <<pvars, vvars, evars, hvars, avars, xvars, jvars>>

\* _get_anchor_embeddings, line 39: the test `_anchor_embeddings is None`
TestAnchors ==
    /\ \E t \in Threads :
          /\ gpc[t] = "get_anchors"
          /\ gpc' = [gpc EXCEPT ![t] =
                IF _anchor_embeddings = None THEN "anchors_get_model" ELSE "encode_texts"]
    /\ UNCHANGED <<_semantic_model, model_loads>>
    /\ UNCHANGED <<pvars, vvars, evars, hvars, avars, xvars, jvars>>

\* _get_anchor_embeddings, line 42: the anchor phrases are encoded and the
\* tensor is assigned to the global
EncodeAnchors ==
    /\ \E t \in Threads :
          /\ gpc[t] = "encode_anchors"
          /\ gpc' = [gpc EXCEPT ![t] = "encode_texts"]
    /\ encode_calls' = Append(encode_calls, [arg |-> "ANCHOR_PHRASES", from |-> 1, to |-> 10])
    /\ _anchor_embeddings' = <<"tensor">>
    /\ UNCHANGED <<_semantic_model, model_loads>>
    /\ UNCHANGED pages_locals
    /\ UNCHANGED <<vvars, evars, hvars, avars, xvars, jvars>>

\* analyze_pages, line 187: the texts of the thread's candidates are encoded
EncodeTexts ==
    /\ \E t \in Threads : \E n \in 1..MaxBlocks :
          /\ gpc[t] = "encode_texts"
          /\ gpc' = [gpc EXCEPT ![t] = "done"]
          /\ encode_calls' = Append(encode_calls, [arg |-> "texts", from |-> 1, to |-> n])
    /\ UNCHANGED <<_semantic_model, model_loads, _anchor_embeddings>>
    /\ UNCHANGED pages_locals
    /\ UNCHANGED <<vvars, evars, hvars, avars, xvars, jvars>>

NextScoring ==
    \/ TestModel
    \/ LoadModel
    \/ TestAnchors
    \/ EncodeAnchors
    \/ EncodeTexts

SpecScoring == InitScoring /\ [][NextScoring]_vars

(***************************************************************************)
(* Properties of analyze_pages.                                            *)
(***************************************************************************)
\* page p of the consumed stream deferred its trailing block (lines 173-175)
Deferred(p) ==
    /\ ParagraphsOf(stream[p].page_text) # <<>>
    /\ Truthy(stream[p].trailing_text)
    /\ _is_incomplete(stream[p].trailing_text)

\* the evaluations of `text` of page q as a paragraph of its own
Standalone(q, text) ==
    {i \in 1..Len(evals) :
        /\ evals[i].kind \in {"single", "final"}
        /\ evals[i].page = q
        /\ strip(evals[i].text) = strip(text)}

\* the evaluations of the join of page p's trailing block with page p+1's leading block
JoinEvals(p) ==
    {i \in 1..Len(evals) :
        /\ evals[i].kind = "joined"
        /\ evals[i].at = p + 1
        /\ evals[i].text = _join_paragraphs(stream[p].trailing_text, stream[p + 1].leading_text)}

\* C1: for consecutive pages p, p+1 where p's trailing block is incomplete and
\* p+1 has a leading block, the join of the two is evaluated exactly once and
\* neither block is evaluated as a paragraph of its own.
C1_MergeOnceNoDuplicate ==
    \A p \in 1..(Len(stream) - 1) :
        (Deferred(p) /\ Truthy(stream[p + 1].leading_text)) =>
            /\ Cardinality(JoinEvals(p)) = 1
            /\ Standalone(p, stream[p].trailing_text) = {}
            /\ Standalone(p + 1, stream[p + 1].leading_text) = {}

\* C2: when analyze_pages has returned, every deferred trailing block has been
\* evaluated, joined on the following page or alone with its own page number.
C2_NoDeferredFragmentLost ==
    pc = "done" =>
        \A p \in 1..Len(stream) :
            Deferred(p) =>
                \E i \in 1..Len(evals) :
                    \/ /\ evals[i].kind = "joined"
                       /\ evals[i].page = p
                       /\ evals[i].at = p + 1
                    \/ /\ evals[i].kind = "final"
                       /\ evals[i].page = p
                       /\ evals[i].text = stream[p].trailing_text

\* C3: the returned list has every score at or above the threshold, at most
\* top_k entries, and scores in non-increasing order.
C3_ThresholdTopKSorted ==
    pc = "done" =>
        /\ \A i \in 1..Len(results) : results[i].score >= threshold
        /\ Len(results) <= top_k
        /\ \A i \in 1..(Len(results) - 1) : results[i].score >= results[i + 1].score

\* a run that filtered a candidate out, and returned two results whose
\* candidates came in ascending score
C3_Witness ==
    /\ pc = "done"
    /\ Len(results) = 2
    /\ Len(candidates) > 2
    /\ results[1].score > results[2].score
    /\ \E i, j \in 1..Len(candidates) :
          i < j /\ scores[i] >= threshold /\ scores[i] < scores[j]

\* the candidates the embedding model scored s, in the order the merger emitted them
EmittedWithScore(s) ==
    LET at == SelectSeq([i \in 1..Len(candidates) |-> i], LAMBDA i : scores[i] = s)
    IN [k \in 1..Len(at) |-> candidates[at[k]]]

\* the returned results of score s, in the order of the returned list
ReturnedWithScore(s) == SelectSeq(results, LAMBDA r : r.score = s)

\* C18: results of equal score come in the order in which the merger emitted
\* their paragraphs, and the merger emits paragraphs in non-decreasing order of
\* attributed page number.
C18_StableRanking ==
    /\ pc = "done" =>
          \A s \in 0..MaxScore :
              /\ Len(ReturnedWithScore(s)) <= Len(EmittedWithScore(s))
              /\ \A k \in 1..Len(ReturnedWithScore(s)) :
                    /\ ReturnedWithScore(s)[k].page = EmittedWithScore(s)[k].page
                    /\ ReturnedWithScore(s)[k].text = EmittedWithScore(s)[k].text
    /\ \A i, j \in 1..Len(candidates) :
          i < j => candidates[i].page <= candidates[j].page

\* two results of one score from different pages, the first of them a paragraph
\* joined across the page break
C18_Witness ==
    /\ pc = "done"
    /\ Len(results) = 2
    /\ results[1].score = results[2].score
    /\ results[1].page < results[2].page
    /\ \E i \in 1..Len(evals) : evals[i].kind = "joined" /\ evals[i].text = results[1].text

\* C14: analyze_pages takes an optional progress_callback; when one is given
\* and there is a candidate, the callback receives a 'Scoring' message and then
\* a 'Scored' message, and a call without a callback tells nobody.
C14_ProgressCallback ==
    /\ pc # "type_error"
    /\ (pc = "done" /\ progress_callback /\ candidates # <<>>) =>
          messages = <<"Scoring", "Scored">>
    /\ (pc = "done" /\ ~progress_callback) => messages = <<>>

\* the evaluations made when page q joined the pending fragment with its leading block
LeadingJoins(q) ==
    {i \in 1..Len(evals) :
        /\ evals[i].kind = "joined"
        /\ evals[i].at = q
        /\ ParagraphsOf(stream[q].page_text) # <<>>}

\* C26 as stated: the join of the pending fragment of page q-1 with the leading
\* block of page q carries the number q-1 if the pending fragment alone is
\* scorable, and the number q otherwise.
C26_AttributionByFragment ==
    \A q \in 2..Len(stream) : \A i \in LeadingJoins(q) :
        evals[i].page = IF _is_scorable_paragraph(stream[q - 1].trailing_text)
                        THEN q - 1 ELSE q

\* C26 amended: every join of a pending fragment carries the number of the
\* page before the one that made the join, the page that deferred the
\* fragment, and so does the candidate it becomes, whether or not the pending
\* fragment alone is scorable.
C26_AttributionToPendingPage ==
    \A i \in 1..Len(evals) :
        evals[i].kind = "joined" =>
            /\ evals[i].page = evals[i].at - 1
            /\ evals[i].page >= 1
            /\ stream[evals[i].page].trailing_text # None
            /\ (\E c \in 1..Len(candidates) : candidates[c].text = evals[i].text) =>
                  \E c \in 1..Len(candidates) :
                      candidates[c] = [page |-> evals[i].page, text |-> evals[i].text]

\* a hyphenated line too short to be scored alone was joined with the next
\* page's leading block into a candidate
C26_Witness ==
    \E q \in 2..Len(stream) : \E i \in LeadingJoins(q) :
        /\ ~_is_scorable_paragraph(stream[q - 1].trailing_text)
        /\ _is_scorable_paragraph(evals[i].text)
        /\ \E c \in 1..Len(candidates) :
              candidates[c] = [page |-> q - 1, text |-> evals[i].text]

\* paragraph k of page q was not evaluated as a paragraph of page q
Skipped(q, k) ==
    LET paragraphs == ParagraphsOf(stream[q].page_text)
    IN ~\E i \in 1..Len(evals) :
          /\ evals[i].kind = "single"
          /\ evals[i].at = q
          /\ evals[i].text = paragraphs[k]

\* the normalized texts are equal, or one begins with the first 100 characters of the other
SameFragment(a, b) ==
    LET na == _normalize_for_comparison(a)
        nb == _normalize_for_comparison(b)
    IN \/ na = nb
       \/ startswith(na, Prefix(nb, 100))
       \/ startswith(nb, Prefix(na, 100))

\* page q consumed its leading block in a join with the pending fragment
ConsumedLeading(q) == LeadingJoins(q) # {}

\* C27: a paragraph of a page is skipped exactly when it matches the consumed
\* leading block or the deferred trailing block (normalized texts equal, or one
\* a prefix of the other within 100 characters); at most one paragraph of a
\* page is skipped as the leading block; every skipped paragraph is the
\* leading or the trailing block itself.
C27_FragmentMatching ==
    \A q \in 1..Len(stream) :
        LET paragraphs == ParagraphsOf(stream[q].page_text)
            asLeading == {k \in 1..Len(paragraphs) :
                             /\ Skipped(q, k)
                             /\ ConsumedLeading(q)
                             /\ SameFragment(paragraphs[k], stream[q].leading_text)
                             /\ ~(Deferred(q) /\ SameFragment(paragraphs[k], stream[q].trailing_text))}
        IN /\ \A k \in 1..Len(paragraphs) :
                Skipped(q, k) <=>
                    \/ ConsumedLeading(q) /\ SameFragment(paragraphs[k], stream[q].leading_text)
                    \/ Deferred(q) /\ SameFragment(paragraphs[k], stream[q].trailing_text)
           /\ Cardinality(asLeading) <= 1
           /\ \A k \in 1..Len(paragraphs) :
                Skipped(q, k) =>
                    \/ ConsumedLeading(q) /\ paragraphs[k] = strip(stream[q].leading_text)
                    \/ Deferred(q) /\ paragraphs[k] = strip(stream[q].trailing_text)

\* C28: a block consumed as the leading half of a join on page q is not
\* evaluated again as a paragraph of its own and is not the pending fragment
\* of a second join on page q+1.
C28_FragmentUsedOnce ==
    \A q \in 1..Len(stream) :
        ConsumedLeading(q) =>
            /\ Standalone(q, stream[q].leading_text) = {}
            /\ ~\E i \in 1..Len(evals) :
                  /\ evals[i].kind = "joined"
                  /\ evals[i].page = q
                  /\ evals[i].at = q + 1
                  /\ stream[q].trailing_text = stream[q].leading_text

\* C29: a step that consumes a page without paragraphs evaluates, when a
\* fragment is pending, one join with the number of the pending fragment's
\* page and nothing else; when no fragment is pending it evaluates nothing and
\* leaves candidates and pending fragment as they were.
C29_EmptyPageHandling ==
    [][(/\ page_num' = page_num + 1
        /\ ParagraphsOf(stream'[page_num'].page_text) = <<>>) =>
           IF Truthy(pending_visual)
           THEN /\ \E e \in {evals'[i] : i \in 1..Len(evals')} :
                      /\ evals' = Append(evals, e)
                      /\ e.kind = "joined"
                      /\ e.page = pending_page
                      /\ e.at = page_num'
                /\ pending_visual' = <<>>
           ELSE UNCHANGED <<candidates, evals, pending_visual, pending_page>>]_vars

\* the calls of model.encode whose argument is a list of candidate texts
TextBatches == {i \in 1..Len(encode_calls) : encode_calls[i].arg = "texts"}

\* C30: no call of model.encode is made while the page stream is being
\* consumed; after the return, an empty candidate list has caused no call and
\* an empty result, and a non-empty one exactly one call on candidate texts,
\* holding the texts of all candidates in order, with one score per text.
C30_SingleBatchScoring ==
    /\ pc = "pages" => encode_calls = <<>>
    /\ pc = "done" =>
          IF candidates = <<>>
          THEN encode_calls = <<>> /\ results = <<>>
          ELSE /\ Cardinality(TextBatches) = 1
               /\ \A i \in TextBatches :
                     /\ encode_calls[i].from = 1
                     /\ encode_calls[i].to = Len(candidates)
                     /\ encode_calls[i].to = Len(scores)
                     /\ i = Len(encode_calls)

\* a run over two pages that scored two candidates, one of them a join
C30_Witness ==
    /\ pc = "done"
    /\ Len(stream) = 2
    /\ Len(candidates) = 2
    /\ Cardinality(TextBatches) = 1
    /\ \E i \in 1..Len(evals) : evals[i].kind = "joined"

(***************************************************************************)
(* Properties of verify_gaps and generate_report.                          *)
(***************************************************************************)
\* verify_gaps has returned its list
Returned == vpc \in {"returned", "reported", "report_raised"}

\* the quote of a verdict entry is non-empty and occurs in the paragraph
Grounded(quote, paragraph) == quote # <<>> /\ Contains(paragraph, quote)

\* the positions of the b-th batch submitted
PositionsOfCall(b) == (calls[b].start + 1)..(calls[b].start + calls[b].size)

HasDefault(p) ==
    /\ enriched[p].verdict = "uncertain"
    /\ enriched[p].reason = ""
    /\ enriched[p].evidence_quote = <<>>

\* candidate p carries the classification of the entry returned for it
Classified(p) ==
    LET v == llm_last[p]
    IN IF Grounded(v.evidence_quote, gaps[p].paragraph)
       THEN /\ enriched[p].verdict = v.verdict
            /\ enriched[p].reason = v.reason
            /\ enriched[p].evidence_quote = v.evidence_quote
       ELSE /\ enriched[p].verdict = "uncertain"
            /\ enriched[p].reason = UNCERTAIN_REASON
            /\ enriched[p].evidence_quote = v.evidence_quote

\* C4 as claimed: a confirmed_gap or false_positive verdict has a grounded
\* quote, and a candidate for which the model returned any entry with an empty
\* or foreign quote is uncertain with the fixed reason.
C4_GroundingAnyReturnedQuote ==
    Returned =>
        \A p \in 1..Len(enriched) :
            /\ enriched[p].verdict \in {"confirmed_gap", "false_positive"} =>
                   Grounded(enriched[p].evidence_quote, enriched[p].paragraph)
            /\ p \in llm_ungrounded =>
                   /\ enriched[p].verdict = "uncertain"
                   /\ enriched[p].reason = UNCERTAIN_REASON

\* C4 as amended: a confirmed_gap or false_positive verdict has a grounded
\* quote, and a candidate whose last returned entry has an empty or foreign
\* quote is uncertain with the fixed reason.
C4_GroundingLastReturnedQuote ==
    Returned =>
        \A p \in 1..Len(enriched) :
            /\ enriched[p].verdict \in {"confirmed_gap", "false_positive"} =>
                   Grounded(enriched[p].evidence_quote, enriched[p].paragraph)
            /\ (llm_last[p] # NoVerdict
                    /\ ~Grounded(llm_last[p].evidence_quote, gaps[p].paragraph)) =>
                   /\ enriched[p].verdict = "uncertain"
                   /\ enriched[p].reason = UNCERTAIN_REASON

\* one candidate confirmed on a grounded quote, another downgraded for a quote
\* that is not in its paragraph
C4_Witness ==
    /\ Returned
    /\ \E p, q \in 1..Len(enriched) :
          /\ enriched[p].verdict = "confirmed_gap"
          /\ enriched[p].evidence_quote = QuoteBC
          /\ llm_last[q] # NoVerdict
          /\ llm_last[q].verdict = "confirmed_gap"
          /\ llm_last[q].evidence_quote = QuoteBC
          /\ enriched[q].verdict = "uncertain"

\* C5: when the call of a batch raised, the candidates of that batch keep the
\* default state, the others keep the classification of their own call, the
\* later batches are submitted and verify_gaps does not raise.
C5_BatchFailureIsolation ==
    \A b \in 1..Len(calls) :
        calls[b].kind = "raise" =>
            /\ \A p \in PositionsOfCall(b) : HasDefault(p)
            /\ \A p \in 1..Len(enriched) : llm_last[p] # NoVerdict => Classified(p)
            /\ vpc # "raised"
            /\ Returned => Len(calls) * VERIFY_BATCH_SIZE >= Len(gaps)

\* C6: batches are taken in input order, each of at most 10 candidates, and
\* once the run is over exactly ceil(n/10) calls were made, every candidate
\* in one of them.
C6_Batching ==
    /\ \A b \in 1..Len(calls) :
          /\ calls[b].start = (b - 1) * VERIFY_BATCH_SIZE
          /\ calls[b].size <= VERIFY_BATCH_SIZE
          /\ calls[b].size >= 1
    /\ vpc \notin {"start", "loop"} =>
          /\ Len(calls) = (Len(gaps) + VERIFY_BATCH_SIZE - 1) \div VERIFY_BATCH_SIZE
          /\ \A p \in 1..Len(gaps) :
                Cardinality({b \in 1..Len(calls) : p \in PositionsOfCall(b)}) = 1

\* C7: in the returned list every verdict is confirmed_gap, false_positive or
\* uncertain.
C7_VerdictDomain ==
    Returned =>
        \A p \in 1..Len(enriched) :
            enriched[p].verdict \in {"confirmed_gap", "false_positive", "uncertain"}

\* C8: no outcome of an LLM call makes verify_gaps raise.
C8_NeverRaises == vpc # "raised"

\* C9: in a batch whose call did not raise, a candidate whose index the
\* response lacks keeps the default state, and a candidate whose index the
\* response has carries the classification of its entry.
C9_MissingIndex ==
    \A b \in 1..Len(calls) :
        calls[b].kind # "raise" =>
            \A p \in PositionsOfCall(b) :
                IF llm_last[p] = NoVerdict THEN HasDefault(p) ELSE Classified(p)

\* a response that classified one candidate of a batch and skipped another
C9_Witness ==
    \E b \in 1..Len(calls) :
        /\ calls[b].kind = "list"
        /\ \E p, q \in PositionsOfCall(b) :
              /\ llm_last[p] # NoVerdict
              /\ enriched[p].verdict = "confirmed_gap"
              /\ llm_last[q] = NoVerdict
              /\ HasDefault(q)

\* C10: generate_report on a list without a confirmed_gap makes no LLM call
\* and returns the fixed report.
C10_ZeroConfirmedShortcut ==
    (/\ vpc \in {"reported", "report_raised"}
     /\ \A p \in 1..Len(enriched) : enriched[p].verdict # "confirmed_gap") =>
        /\ report_prompt = <<>>
        /\ report = NO_CONFIRMED_REPORT
        /\ vpc = "reported"

\* the fixed report for a list that holds a false_positive and no confirmed_gap
C10_Witness ==
    /\ vpc = "reported"
    /\ report = NO_CONFIRMED_REPORT
    /\ report_prompt = <<>>
    /\ \E p \in 1..Len(enriched) : enriched[p].verdict = "false_positive"

\* the k-th position, in input order, of a candidate with verdict confirmed_gap
ConfirmedPosition(k) ==
    LET idx == {p \in 1..Len(enriched) : enriched[p].verdict = "confirmed_gap"}
    IN CHOOSE p \in idx : Cardinality({q \in idx : q < p}) = k - 1

\* C11: when some candidate is confirmed_gap, generate_report makes exactly one
\* LLM call, and its prompt lists exactly the confirmed_gap candidates, in input
\* order, each with its evidence quote, and no other candidate.
C11_PromptHoldsConfirmedOnly ==
    (/\ vpc \in {"reported", "report_raised"}
     /\ \E p \in 1..Len(enriched) : enriched[p].verdict = "confirmed_gap") =>
        /\ Len(report_prompt) = 1
        /\ Len(report_prompt[1]) =
               Cardinality({p \in 1..Len(enriched) : enriched[p].verdict = "confirmed_gap"})
        /\ \A k \in 1..Len(report_prompt[1]) :
               LET p == ConfirmedPosition(k)
                   entry == report_prompt[1][k]
               IN /\ entry.number = k
                  /\ entry.page = enriched[p].page
                  /\ entry.paragraph = Prefix(enriched[p].paragraph, 500)
                  /\ entry.evidence_quote = enriched[p].evidence_quote

\* a report whose prompt holds the one confirmed candidate of a list that also
\* holds an earlier false_positive and a downgraded candidate
C11_Witness ==
    /\ vpc = "reported"
    /\ Len(report_prompt) = 1
    /\ Len(report_prompt[1]) = 1
    /\ \E p, q, r \in 1..Len(enriched) :
          /\ p < r
          /\ enriched[p].verdict = "false_positive"
          /\ enriched[q].verdict = "uncertain"
          /\ enriched[q].reason = UNCERTAIN_REASON
          /\ enriched[r].verdict = "confirmed_gap"
          /\ report_prompt[1][1].page = enriched[r].page

\* C32: verify_gaps returns a list of the length and order of its input, in
\* which each record holds every field of the candidate at its position with
\* the candidate's value, and the three fields verdict, reason and
\* evidence_quote besides; the candidates handed in are as they were.
C32_FrameOfVerifyGaps ==
    /\ gaps = GapsOf(Len(gaps))
    /\ Returned =>
          /\ Len(enriched) = Len(gaps)
          /\ \A i \in 1..Len(gaps) :
                /\ DOMAIN enriched[i] =
                      DOMAIN gaps[i] \cup {"verdict", "reason", "evidence_quote"}
                /\ \A key \in DOMAIN gaps[i] : enriched[i][key] = gaps[i][key]

C32_Witness ==
    /\ vpc = "returned"
    /\ Len(gaps) > 1
    /\ \E p, q \in 1..Len(enriched) :
          /\ enriched[p].verdict = "confirmed_gap"
          /\ enriched[p].page = p
          /\ enriched[q].verdict = "uncertain"
          /\ enriched[q].paragraph = ParaBD

(***************************************************************************)
(* Properties of the engine.                                               *)
(***************************************************************************)
\* the generate_content calls of the last operation, in order
GeminiCalls == SelectSeq(etrace, LAMBDA e : e.ev = "generate_content")

Failed(call) == call.class # ""

RateLimited(call) == call.class = "ClientError" /\ call.arg = 429

\* the positions of etrace that hold an event of this name
PositionsOf(ev) == {i \in 1..Len(etrace) : etrace[i].ev = ev}

\* C12: one _call_gemini makes at most two LLM calls; the second is made if
\* and only if the first failed with a 429; a failure of the second call
\* propagates; a first failure that is not a 429 propagates with no retry
\* and no delay.
C12_BoundedRetry ==
    /\ Len(GeminiCalls) <= 2
    /\ epc = "second" => (Len(GeminiCalls) = 1 /\ RateLimited(GeminiCalls[1]))
    /\ (epc = "idle" /\ GeminiCalls # <<>>) =>
          /\ Len(GeminiCalls) = 2 <=> RateLimited(GeminiCalls[1])
          /\ (Len(GeminiCalls) = 2 /\ Failed(GeminiCalls[2])) => elast.outcome = "raised"
          /\ (Failed(GeminiCalls[1]) /\ ~RateLimited(GeminiCalls[1])) =>
                /\ elast.outcome = "raised"
                /\ PositionsOf("sleep") = {}
                /\ PositionsOf("progress_callback") = {}

\* a retry whose second call was rate-limited again: the error reached the caller
C12_Witness ==
    /\ epc = "idle"
    /\ Len(GeminiCalls) = 2
    /\ RateLimited(GeminiCalls[1])
    /\ RateLimited(GeminiCalls[2])
    /\ elast.outcome = "raised"

\* 'retry in' occurs in msg at position i, whatever the case of its letters,
\* followed by a digit
NamesRetryDelay(msg, i) ==
    /\ i + Len(RETRY_IN) <= Len(msg)
    /\ \A k \in 1..Len(RETRY_IN) : Lower(msg[i + k - 1]) = RETRY_IN[k]
    /\ IsDigit(msg[i + Len(RETRY_IN)])

\* 'retry in' occurs in msg at position i, whatever the case of its letters,
\* followed by the digits of n and by no further digit
SaysRetryIn(msg, i, n) ==
    \E e \in (i + Len(RETRY_IN))..Len(msg) :
        /\ \A k \in 1..Len(RETRY_IN) : Lower(msg[i + k - 1]) = RETRY_IN[k]
        /\ \A k \in (i + Len(RETRY_IN))..e : IsDigit(msg[k])
        /\ e = Len(msg) \/ ~IsDigit(msg[e + 1])
        /\ IntOf(SubSeq(msg, i + Len(RETRY_IN), e)) = n

\* C13: after a 429 the wait is the integer that follows 'retry in' in the
\* error detail, or 40 when there is none; the notification (when a callback
\* was given) and the wait come after the first call and before the second,
\* and there is exactly one wait.
C13_RetryDelayAndOrder ==
    (GeminiCalls # <<>> /\ RateLimited(GeminiCalls[1])) =>
        /\ Cardinality(PositionsOf("sleep")) = 1
        /\ Cardinality(PositionsOf("progress_callback")) = (IF callback THEN 1 ELSE 0)
        /\ \A s \in PositionsOf("sleep") :
              /\ IF \E i \in 1..Len(first_error) : NamesRetryDelay(first_error, i)
                 THEN \E i \in 1..Len(first_error) :
                          SaysRetryIn(first_error, i, etrace[s].arg)
                 ELSE etrace[s].arg = 40
              /\ \E c \in PositionsOf("generate_content") :
                    /\ c < s
                    /\ Failed(etrace[c])
                    /\ \A q \in PositionsOf("progress_callback") : c < q /\ q < s
                    /\ \A d \in PositionsOf("generate_content") \ {c} :
                          s < d /\ \A q \in PositionsOf("progress_callback") : q < d
              /\ \A q \in PositionsOf("progress_callback") : etrace[q].arg = etrace[s].arg

\* a retry that told the callback and slept the 70 seconds of the error detail
C13_Witness ==
    /\ Len(GeminiCalls) = 2
    /\ callback
    /\ \E s \in PositionsOf("sleep") : etrace[s].arg = 70
    /\ PositionsOf("progress_callback") # {}

\* before operation number k the engine held a document: some earlier
\* ingest_pdf built a store and no cleanup came after it
HeldDocumentBefore(k) ==
    \E i \in 1..(k - 1) :
        /\ ehist[i].op = "ingest_pdf"
        /\ ehist[i].built
        /\ \A j \in (i + 1)..(k - 1) : ehist[j].op # "cleanup"

\* C19: analyze_gaps on an engine that holds no ingested document (none was
\* ingested, or cleanup came after) raises RuntimeError without a retrieval
\* or an LLM call; cleanup leaves the store at none, does nothing when none is
\* held, and a second cleanup in a row changes nothing.
C19_EngineLifecycle ==
    /\ (elast.op = "analyze_gaps" /\ ~HeldDocumentBefore(Len(ehist))) =>
          /\ elast.outcome = "RuntimeError"
          /\ epc = "idle"
          /\ etrace = <<>>
    /\ (elast.op = "analyze_gaps" /\ HeldDocumentBefore(Len(ehist))) =>
          /\ elast.outcome # "RuntimeError"
          /\ PositionsOf("similarity_search") # {}
    /\ elast.op = "cleanup" =>
          /\ _vectorstore = 0
          /\ elast.outcome = "returned"
          /\ ~HeldDocumentBefore(Len(ehist)) => (etrace = <<>> /\ elast.store = 0)
          /\ (Len(ehist) > 1 /\ ehist[Len(ehist) - 1].op = "cleanup") =>
                (etrace = <<>> /\ elast.store = 0)

\* analyze_gaps refused after a document was ingested and then released
C19_Witness ==
    /\ Len(ehist) = 3
    /\ ehist[1].op = "ingest_pdf"
    /\ ehist[1].built
    /\ ehist[2].op = "cleanup"
    /\ ehist[3].op = "analyze_gaps"
    /\ elast.outcome = "RuntimeError"
    /\ etrace = <<>>

\* the ingest_pdf calls among the operations so far, as positions of ehist
IngestCalls == {k \in 1..Len(ehist) : ehist[k].op = "ingest_pdf"}

\* the most recent ingest_pdf call returned 0
LatestIngestReturnedZero ==
    /\ IngestCalls # {}
    /\ ehist[CHOOSE k \in IngestCalls : \A m \in IngestCalls : m <= k].result = "empty"

\* C40: when the most recent ingest_pdf call returned 0 chunks, analyze_gaps
\* searches no vector store: it analyses no chunk of a document ingested earlier.
C40_LatestIngestOnly ==
    (elast.op = "analyze_gaps" /\ LatestIngestReturnedZero) =>
        PositionsOf("similarity_search") = {}

(***************************************************************************)
(* Properties of the text helpers.                                         *)
(***************************************************************************)
\* t is s without its trailing whitespace
IsRTrimOf(t, s) ==
    /\ Len(t) <= Len(s)
    /\ t = SubSeq(s, 1, Len(t))
    /\ \A k \in (Len(t) + 1)..Len(s) : IsSpace(s[k])
    /\ t = <<>> \/ ~IsSpace(t[Len(t)])

\* t is s without its leading whitespace
IsLTrimOf(t, s) ==
    /\ Len(t) <= Len(s)
    /\ t = SubSeq(s, Len(s) - Len(t) + 1, Len(s))
    /\ \A k \in 1..(Len(s) - Len(t)) : IsSpace(s[k])
    /\ t = <<>> \/ ~IsSpace(t[1])

\* the prefixes and the suffixes of s
PrefixesOf(s) == {SubSeq(s, 1, n) : n \in 0..Len(s)}

SuffixesOf(s) == {SubSeq(s, n, Len(s)) : n \in 1..(Len(s) + 1)}

\* C15: _join_paragraphs(A, B) is rtrim(A) without its last character followed
\* by ltrim(B) when rtrim(A) ends with a hyphen, else rtrim(A), one space,
\* ltrim(B); 'limita-' and 'tion' give 'limitation'.
C15_JoinRule ==
    (hpc = "done" /\ h_fn = "_join_paragraphs") =>
        /\ \E ra \in PrefixesOf(h_a) : \E lb \in SuffixesOf(h_b) :
              /\ IsRTrimOf(ra, h_a)
              /\ IsLTrimOf(lb, h_b)
              /\ IF ra # <<>> /\ ra[Len(ra)] = "-"
                 THEN h_text = SubSeq(ra, 1, Len(ra) - 1) \o lb
                 ELSE h_text = ra \o <<" ">> \o lb
        /\ (h_a = LIMITA /\ h_b = TION) =>
              h_text = <<"l", "i", "m", "i", "t", "a", "t", "i", "o", "n">>

\* a word repaired across whitespace on both sides of the break
C15_Witness ==
    /\ hpc = "done"
    /\ h_fn = "_join_paragraphs"
    /\ h_a = <<"a", "-", " ">>
    /\ h_b = <<" ", "a", " ">>
    /\ h_text = <<"a", "a", " ">>

\* C16 as claimed: _is_incomplete(text) is true exactly when the text without
\* its trailing whitespace does not end in . ! ? " ) or ], the text that is
\* empty after trimming included.
C16_IncompleteIffNoEnding ==
    (hpc = "done" /\ h_fn = "_is_incomplete") =>
        (h_bool <=> ~\E ra \in PrefixesOf(h_a) :
                        /\ IsRTrimOf(ra, h_a)
                        /\ ra # <<>>
                        /\ ra[Len(ra)] \in {".", "!", "?", "\"", ")", "]"})

\* C16 as amended: _is_incomplete(text) is true exactly when the text without
\* its trailing whitespace is not empty and does not end in . ! ? " ) or ].
C16_IncompleteIffNonEmptyNoEnding ==
    (hpc = "done" /\ h_fn = "_is_incomplete") =>
        (h_bool <=> \E ra \in PrefixesOf(h_a) :
                        /\ IsRTrimOf(ra, h_a)
                        /\ ra # <<>>
                        /\ ra[Len(ra)] \notin {".", "!", "?", "\"", ")", "]"})

\* a fragment that ends in a closing bracket followed by whitespace: complete
C16_Witness ==
    /\ hpc = "done"
    /\ h_fn = "_is_incomplete"
    /\ h_a = <<"a", "]", "\n", " ">>
    /\ ~h_bool

\* C17: _is_scorable_paragraph(text) is true exactly when the text has at
\* least 80 characters, holds neither three dots in a row nor the ellipsis
\* glyph, and at least 0.6 of its non-space characters are alphabetic.
C17_ScorableIff ==
    (hpc = "done" /\ h_fn = "_is_scorable_paragraph") =>
        (h_bool <=>
            LET non_space == {k \in 1..Len(h_a) : h_a[k] # " "}
                alpha == {k \in non_space : IsAlpha(h_a[k])}
            IN /\ Len(h_a) >= 80
               /\ ~Contains(h_a, <<".", ".", ".">>)
               /\ ~Contains(h_a, <<ELLIPSIS_GLYPH>>)
               /\ non_space # {}
               /\ 10 * Cardinality(alpha) >= 6 * Cardinality(non_space))

\* the raw output holds a JSON array between its first "[" and its last "]"
HoldsArray(raw) ==
    LET cleaned == SelectSeq(raw, LAMBDA t : t.kind # "fence")
        first == {i \in 1..Len(cleaned) :
                     /\ cleaned[i].kind = "open" \/ HoldsBrackets(cleaned[i])
                     /\ \A j \in 1..(i - 1) : cleaned[j].kind # "open" /\ ~HoldsBrackets(cleaned[j])}
        last == {i \in 1..Len(cleaned) :
                    /\ cleaned[i].kind = "close" \/ HoldsBrackets(cleaned[i])
                    /\ \A j \in (i + 1)..Len(cleaned) :
                          cleaned[j].kind # "close" /\ ~HoldsBrackets(cleaned[j])}
    IN \E i \in first : \E j \in last : json_loads(cleaned, i, j).ok

\* the elements of the array the raw output holds
ArrayOf(raw) ==
    LET cleaned == SelectSeq(raw, LAMBDA t : t.kind # "fence")
        i == CHOOSE k \in 1..Len(cleaned) :
                 /\ cleaned[k].kind = "open" \/ HoldsBrackets(cleaned[k])
                 /\ \A j \in 1..(k - 1) : cleaned[j].kind # "open" /\ ~HoldsBrackets(cleaned[j])
        j == CHOOSE k \in 1..Len(cleaned) :
                 /\ cleaned[k].kind = "close" \/ HoldsBrackets(cleaned[k])
                 /\ \A m \in (k + 1)..Len(cleaned) :
                       cleaned[m].kind # "close" /\ ~HoldsBrackets(cleaned[m])
    IN json_loads(cleaned, i, j).gaps

\* the element is an object with the four fields
WellFormedGap(g) == g.kind = "object" /\ GAP_FIELDS \subseteq g.keys

\* C23: every call of _parse_gaps_json returns a list; each element is an
\* object with the four fields and a type among the four valid ones; the list
\* is the array's well-formed objects in their order, an unknown type replaced
\* by Empirical; a raw output without a JSON array gives the empty list.
C23_ParseGapsJson ==
    (h_fn = "_parse_gaps_json" /\ hpc # "ready") =>
        /\ hpc = "done"
        /\ \A i \in 1..Len(h_list) :
              WellFormedGap(h_list[i]) /\ h_list[i].type \in valid_types
        /\ IF HoldsArray(h_a)
           THEN LET kept == SelectSeq(ArrayOf(h_a), WellFormedGap)
                IN /\ Len(h_list) = Len(kept)
                   /\ \A i \in 1..Len(kept) :
                         h_list[i] = IF kept[i].type \in valid_types THEN kept[i]
                                     ELSE [kept[i] EXCEPT !.type = "Empirical"]
           ELSE h_list = <<>>

(***************************************************************************)
(* Properties of the routes.                                               *)
(***************************************************************************)
\* exactly 32 characters, each of them one of 0-9 and a-f
WellFormedId(id) ==
    /\ Len(id) = 32
    /\ \A k \in 1..Len(id) : \E h \in 1..16 :
          id[k] = <<"0", "1", "2", "3", "4", "5", "6", "7", "8", "9",
                    "a", "b", "c", "d", "e", "f">>[h]

\* the request found what its identifier names
Matches ==
    \/ request.route = "/progress" /\ request.id \in _jobs
    \/ request.route = "/result" /\ request.id \in json_files
    \/ request.route = "/download" /\ request.id \in xlsx_files

\* C20: on /progress, /result and /download an identifier that is not 32
\* characters of 0-9 and a-f is answered 400 before any registry or file
\* lookup; a well-formed identifier that matches nothing is answered 404 on
\* /progress and /result and 400 on /download.
C20_IdentifierValidation ==
    request.route # "" =>
        /\ ~WellFormedId(request.id) => (status = 400 /\ lookups = <<>>)
        /\ (WellFormedId(request.id) /\ ~Matches) =>
              status = (IF request.route = "/download" THEN 400 ELSE 404)

\* a 31-character name that is a file of the results directory, refused by
\* /result without a look at the directory
C20_Witness ==
    /\ request.route = "/result"
    /\ request.id = NAME_SHORT
    /\ NAME_SHORT \in json_files
    /\ status = 400
    /\ lookups = <<>>

\* C22: GET /result/<id> with a well-formed id is answered 200 whenever the
\* results directory holds a JSON file of that name with the keys data and
\* files_analyzed.
C22_ResultRenders ==
    (/\ request.route = "/result"
     /\ WellFormedId(request.id)
     /\ request.id \in json_files
     /\ {"data", "files_analyzed"} \subseteq json_keys[request.id]) =>
        status = 200

(***************************************************************************)
(* Properties of the page source.                                          *)
(***************************************************************************)
\* the text blocks of the page yielded last that lie outside the header and footer bands
Qualifying ==
    SelectSeq(last_blocks, LAMBDA b : /\ b.type = 0
                                      /\ b.y1 >= HEADER_MARGIN
                                      /\ b.y0 <= PAGE_HEIGHT - FOOTER_MARGIN)

\* C24: a page with a qualifying block yields as leading_text the text of a
\* qualifying block of smallest y0 and as trailing_text the text of one of
\* largest y0, both occur in page_text, and a single qualifying block is both;
\* a page without a qualifying block yields the empty text and None twice;
\* the page numbers start at 1 and each is larger than the one before.
C24_PageRecord ==
    doc_page > 0 =>
        LET q == Qualifying
            ys == {q[i].y0 : i \in 1..Len(q)}
        IN /\ q # <<>> =>
                /\ \E i \in 1..Len(q) :
                      /\ q[i].text = last_yield.leading_text
                      /\ \A y \in ys : q[i].y0 <= y
                /\ \E i \in 1..Len(q) :
                      /\ q[i].text = last_yield.trailing_text
                      /\ \A y \in ys : q[i].y0 >= y
                /\ Contains(last_yield.page_text, last_yield.leading_text)
                /\ Contains(last_yield.page_text, last_yield.trailing_text)
                /\ Len(q) = 1 => /\ last_yield.leading_text = q[1].text
                                 /\ last_yield.trailing_text = q[1].text
           /\ q = <<>> =>
                /\ last_yield.page_text = <<>>
                /\ last_yield.trailing_text = None
                /\ last_yield.leading_text = None
           /\ last_yield.page_number > prev_number
           /\ prev_number = 0 => last_yield.page_number = 1

\* a second page with two qualifying blocks, the right one above the left one
C24_Witness ==
    /\ doc_page = 2
    /\ Len(Qualifying) = 2
    /\ last_yield.leading_text = THyp
    /\ last_yield.trailing_text = TComp
    /\ startswith(last_yield.page_text, TComp)

(***************************************************************************)
(* Properties of the upload, the job thread and the progress stream.       *)
(***************************************************************************)
\* the sizes of the files, added up
RECURSIVE SumOfSizes(_)
SumOfSizes(fs) == IF fs = <<>> THEN 0 ELSE fs[1].size + SumOfSizes(Tail(fs))

\* the files of the request whose name ends with '.pdf'
PdfFiles == SelectSeq(files, LAMBDA f : f.pdf)

\* C21 as stated: an upload without a .pdf file, or with a file of more than
\* 20MB, or with files of more than 50MB in all, is answered 400, registers
\* no job and starts no thread.
C21_UploadRejection ==
    (/\ jpc = "responded"
     /\ \/ PdfFiles = <<>>
        \/ \E k \in 1..Len(files) : files[k].size > MAX_FILE_SIZE
        \/ SumOfSizes(files) > MAX_TOTAL_SIZE) =>
        /\ response = 400
        /\ job = NoJob
        /\ threads = 0

\* C21 amended: an upload without a .pdf file, or with a .pdf file of more
\* than 20MB, or with .pdf files of more than 50MB in all, is answered 400,
\* registers no job and starts no thread.
C21_PdfUploadRejection ==
    (/\ jpc = "responded"
     /\ \/ PdfFiles = <<>>
        \/ \E k \in 1..Len(PdfFiles) : PdfFiles[k].size > MAX_FILE_SIZE
        \/ SumOfSizes(PdfFiles) > MAX_TOTAL_SIZE) =>
        /\ response = 400
        /\ job = NoJob
        /\ threads = 0
        /\ tpc = "none"

\* three .pdf files of 20MB each: none too large, 60MB in all; refused at the third
C21_Witness ==
    /\ jpc = "responded"
    /\ Len(files) = 3
    /\ \A k \in 1..3 : files[k].pdf /\ files[k].size = MAX_FILE_SIZE
    /\ response = 400
    /\ job = NoJob
    /\ threads = 0

\* C25: a stream on a job that reached complete or error has, when it ends,
\* yielded the terminal event of that status.
C25_TerminalEventDelivered ==
    (spc = "ended" /\ job.status \in {"complete", "error"}) =>
        \E i \in 1..Len(yielded) : yielded[i].event = job.status

Terminal == {"complete", "error"}

\* the thread of the job is over, by return or by an exception nothing caught
ThreadFinished == tpc \in {"ended", "crashed"}

\* C33: a job enters the registry with status 'processing'; its status
\* changes only from 'processing', and only to 'complete' or 'error';
\* result_id is set exactly when the status is 'complete', and error_message
\* only when it is 'error'.
C33_StatusMonotone ==
    /\ [](job # NoJob =>
            /\ job.status \in {"processing"} \cup Terminal
            /\ (job.result_id # None) <=> (job.status = "complete")
            /\ (job.error_message # None) => (job.status = "error"))
    /\ [][/\ (job = NoJob /\ job' # NoJob) => job'.status = "processing"
          /\ (job # NoJob /\ job' # NoJob /\ job'.status # job.status) =>
                (job.status = "processing" /\ job'.status \in Terminal)]_vars

\* a job that failed while its result was written, seen after its thread ended
C33_Witness ==
    /\ tpc = "ended"
    /\ job # NoJob
    /\ job.status = "error"
    /\ job.error_message # None
    /\ job.result_id = None
    /\ json_file = PartialFile

\* C34: while a job has status 'complete' its result_id is set and the JSON
\* file of that result is written in full, so GET /result/<result_id> does
\* not answer 404; the same holds once a stream has yielded the 'complete'
\* event.
C34_ResultWrittenBeforeComplete ==
    /\ (job # NoJob /\ job.status = "complete") =>
          /\ job.result_id = RESULT_ID
          /\ json_file.state = "written"
          /\ show_result(json_file) # 404
    /\ (\E i \in 1..Len(yielded) : yielded[i].event = "complete") =>
          /\ json_file.state = "written"
          /\ show_result(json_file) # 404

\* the status is 'complete' and the thread has not pushed the event yet
C34_Witness ==
    /\ tpc = "status_set"
    /\ job # NoJob
    /\ job.status = "complete"
    /\ json_file = ResultJson(<<>>, 0)
    /\ show_result(json_file) = 200

\* C35: what a stream has yielded is at every moment the first events
\* appended to the progress list of its job, in the order of appending, each
\* once; and when the stream ends it has yielded every event appended so far.
C35_StreamDelivery ==
    /\ [](/\ cursor = Len(yielded)
          /\ Len(yielded) <= Len(pushed)
          /\ yielded = SubSeq(pushed, 1, Len(yielded)))
    /\ [][(spc = "polling" /\ spc' = "ended") => yielded' = pushed']_vars

\* the events about single files among those appended
FileEvents ==
    SelectSeq(pushed, LAMBDA e : e.data[1] \in {"Processing file",
                                                "Skipping: could not read metadata",
                                                "Skipping: analysis failed"})

\* the status the job has, or had when it left the registry
FinalStatus == IF job # NoJob THEN job.status ELSE removed

\* C36: every file fails, in extract_metadata or in analyze_pages.  When the
\* thread is over and writing the result did not fail, each file k of the
\* upload has got its 'Processing file' event and then a 'Skipping' event, in
\* upload order, the job is 'complete', and the result written has
\* files_with_gaps <= files_analyzed <= number of uploaded files.
C36_FailureIsolation ==
    /\ json_file.state = "written" =>
          /\ json_file.files_with_gaps <= json_file.files_analyzed
          /\ json_file.files_analyzed <= Len(files)
    /\ (ThreadFinished /\ json_file.state = "written") =>
          /\ FinalStatus = "complete"
          /\ Len(FileEvents) = 2 * Len(saved_files)
          /\ \A k \in 1..Len(saved_files) :
                /\ FileEvents[2 * k - 1].data = <<"Processing file", k>>
                /\ FileEvents[2 * k].data[1] # "Processing file"
                /\ FileEvents[2 * k].data[2] = k

C38_RejectedUploadLeavesNothing ==
    (jpc = "responded" /\ response = 400) => (on_disk = <<>> /\ ~job_dir)

\* C39: _cleanup_stale_jobs removes a job only in status 'complete' or
\* 'error', and the thread of a job never ends with an exception that
\* nothing caught.
C39_StaleCleanupSafe ==
    /\ removed \in {"none"} \cup Terminal
    /\ tpc # "crashed"

(***************************************************************************)
(* Properties of the lazily loaded model and anchor embeddings.            *)
(***************************************************************************)
\* the model.encode calls on the anchor phrases so far
AnchorEncodes == SelectSeq(encode_calls, LAMBDA c : c.arg = "ANCHOR_PHRASES")

\* C31: in one process the embedding model is loaded at most once and the
\* anchor phrases are encoded at most once, however the threads that reach
\* _get_model and _get_anchor_embeddings interleave.
C31_LoadedAndEmbeddedOnce ==
    /\ model_loads <= 1
    /\ Len(AnchorEncodes) <= 1

====
